---- MODULE Spec2Model ----
(***************************************************************************)
(* The C2 backend's listener lifecycle and agent directory, and the agent's *)
(* channels.                                                               *)
(*                                                                         *)
(* ProtocolManager (C2/Backend/utils/manager.py) starts and stops the five *)
(* protocol servers; control_server (C2/Backend/API/admin_api.py) maps the *)
(* /api/control/{action} requests onto it.  Everything that touches the    *)
(* manager runs on one asyncio event loop: a coroutine runs without        *)
(* interruption up to its next suspending await, tasks made by create_task *)
(* are run in creation order before anything that becomes ready later, and *)
(* the asyncio.sleep(1) timers fire in the order they were started.  The   *)
(* SMB, DNS and ICMP servers run on executor threads and interleave freely. *)
(*                                                                         *)
(* The agent directory (C2/Backend/API/agent_manager_pg.py) and the agent's *)
(* channels (Agent/protocols) share no state with the manager; each has a  *)
(* specification of its own further down.                                  *)
(***************************************************************************)
EXTENDS Integers, Sequences, FiniteSets, TLC

\* ------------------------------------------------------------------ bounds
\* Number of /api/control requests the environment sends.
MaxReq == 4

\* Number of start_all executions that get to create listener units.
MaxCycles == 2

\* --------------------------------------------------------------- constants
\* concurrent.futures.ThreadPoolExecutor(max_workers=5)
max_workers == 5

\* The servers start_all launches, in the order of the protocol_tasks list.
Protocols == <<"http", "https", "smb", "dns", "icmp">>

Kinds == {Protocols[i] : i \in 1..Len(Protocols)}

\* asyncio.create_task(...) results: instances of asyncio.Task.
TaskKinds == {"http", "https"}

\* loop.run_in_executor(...) results: futures backed by an executor thread.
ThreadKinds == {"smb", "dns", "icmp"}

\* The port each server checks with is_port_in_use; the ICMP sniffer has none.
NoPort == 0

PortOf(k) ==
    CASE k = "http"  -> 80
      [] k = "https" -> 443
      [] k = "smb"   -> 445
      [] k = "dns"   -> 53
      [] OTHER       -> NoPort

Ports == {PortOf(k) : k \in Kinds} \ {NoPort}

\* The values `action` is compared against in control_server.
ValidActions == {"start", "stop", "restart"}

\* Representatives of every other path parameter (the test is an exact match).
OtherActions == {"status", "START"}

Actions == ValidActions \cup OtherActions

VARIABLES
    running,         \* ProtocolManager.running
    stop_event,      \* ProtocolManager.stop_event.is_set()
    protocol_tasks,  \* ProtocolManager.protocol_tasks: sequence of unit ids
    units,           \* every listener unit ever created: unit id -> state
    cancel_req,      \* asyncio tasks on which cancel() has been requested
    cycle,           \* number of start_all executions that created units
    calls,           \* control calls in progress: request id -> [action, pc]
    nreq,            \* number of control requests received so far
    ready,           \* the event loop's FIFO of tasks ready to run
    timers,          \* the asyncio.sleep(1) timers, in start order
    last_response,   \* status of the HTTP response sent last (0: none yet)
    log,             \* the message the manager wrote last to the c2server log
    use_https,       \* config["https"]["use_https"] (USE_HTTPS)
    external,        \* ports bound by processes other than this server
    overlapped,      \* calls in progress that shared part of their time with another
    failed,          \* orchestrator calls that raised: [call, response]
    agents,          \* the rows of the agents table
    clock,           \* what datetime.datetime.utcnow() returns
    sessions,        \* Directory calls in progress: call id -> its locals
    ncall,           \* number of Directory calls begun so far
    ntoken,          \* number of tokens uuid.uuid4() has produced so far
    issued,          \* <<agent_id, token>> pairs register_agent has returned
    result,          \* what the Directory call that ended last gave its caller
    channel_result,  \* the agent channel operation that ended last, and its outcome
    agent_tasks,     \* the `tasks` list of the agent's main(): one record a task
    agent_main,      \* where the agent's main() is: "none", "gather" or "raised"
    echo,            \* the ICMP echo-request that arrived last, and its replies
    systemctl,       \* DNS unit -> the systemctl calls its thread has made
    acked            \* the action of the control request answered 200 last

vars == <<running, stop_event, protocol_tasks, units, cancel_req, cycle, calls,
          nreq, ready, timers, last_response, log, use_https, external, overlapped,
          failed, agents, clock, sessions, ncall, ntoken, issued, result,
          channel_result, agent_tasks, agent_main, echo, systemctl, acked>>

manager_vars == <<running, stop_event, protocol_tasks, units, cancel_req, cycle>>

env_vars == <<use_https, external>>

control_vars == <<manager_vars, calls, nreq, ready, timers, last_response, log,
                  env_vars, overlapped, failed, echo, systemctl, acked>>

directory_vars == <<agents, clock, sessions, ncall, ntoken, issued, result>>

agent_vars == <<agent_tasks, agent_main>>

channel_vars == <<channel_result, agent_vars>>

\* What the server threads do outside the process: replies on the wire,
\* calls of systemctl.
host_vars == <<echo, systemctl>>

\* What the control endpoint and the manager never write.
rest_vars == <<failed, directory_vars, channel_vars, host_vars>>

\* ------------------------------------------------------------------ helpers
\* No HTTP response has been sent.
NoResponse == 0

\* No agent channel operation has ended yet.
NoOperation == [channel |-> "none", op |-> "none", net |-> "none", status |-> 0,
                body |-> "none", field |-> "absent", asked |-> FALSE,
                payload |-> {}, raised |-> FALSE, value |-> "none"]

\* No ICMP echo-request has arrived yet.
NoEcho == [arrived |-> FALSE, running |-> FALSE, request |-> <<0, 0>>,
           todo |-> {}, replies |-> <<>>]

\* No Directory call has ended yet.
NoResult == [op |-> "none", agent_id |-> "none", outcome |-> "none", token |-> 0,
             list |-> <<>>]

Unit(c, k) == <<c, k>>

KindOf(u) == u[2]

CycleOf(u) == u[1]

Range(s) == {s[i] : i \in 1..Len(s)}

CallEntry(r) == [kind |-> "call", call |-> r, unit |-> Unit(0, "none")]

UnitEntry(u) == [kind |-> "unit", call |-> 0, unit |-> u]

\* Units that currently hold their port: a serving asyncio task or a live thread.
Holding(u) == units[u] \in {"serving", "live"}

\* is_port_in_use(port): a TCP socket is bound to the port for a moment, which
\* fails when a TCP socket holds it.  The DNS server's socket is a UDP one.
is_port_in_use(p) ==
    \/ p \in external
    \/ \E u \in DOMAIN units : Holding(u) /\ PortOf(KindOf(u)) = p /\ KindOf(u) # "dns"

\* A bind that only another process can make fail.
BindIgnoresUnits(p) == p \in external

\* The server's own bind (sock.bind in start_dns_server, the constructor of
\* SimpleSMBServer): "address already in use" when anything holds the port.
BindFails(p) ==
    \/ p \in external
    \/ \E u \in DOMAIN units : Holding(u) /\ PortOf(KindOf(u)) = p

\* Executor threads occupied by a server function that has not returned.
BusyWorkers == {u \in DOMAIN units : units[u] \in {"checked", "live"}}

InFlight == DOMAIN calls

EmptyMap == [x \in {} |-> 0]

Drop(f, r) == [x \in (DOMAIN f) \ {r} |-> f[x]]

Put(f, r, v) == [x \in (DOMAIN f) \cup {r} |-> IF x = r THEN v ELSE f[x]]

\* The units one start_all creates, in the order of its protocol_tasks list.
NewUnits(c) == [i \in 1..Len(Protocols) |-> Unit(c, Protocols[i])]

\* -------------------------------------------------------- ProtocolManager
\* The state after `protocol_manager = ProtocolManager()` and the application's
\* construction, before any request.
Constructed ==
    /\ running = FALSE
    /\ stop_event = FALSE
    /\ protocol_tasks = <<>>
    /\ units = EmptyMap
    /\ cancel_req = {}
    /\ cycle = 0
    /\ calls = EmptyMap
    /\ nreq = 0
    /\ ready = <<>>
    /\ timers = <<>>
    /\ last_response = NoResponse
    /\ log = "none"
    /\ overlapped = {}
    /\ failed = {}
    /\ clock = 0
    /\ sessions = EmptyMap
    /\ ncall = 0
    /\ ntoken = 0
    /\ issued = {}
    /\ result = NoResult
    /\ channel_result = NoOperation
    /\ echo = NoEcho
    /\ systemctl = EmptyMap
    /\ acked = "none"

\* The agent's main() has not run.
NoAgent ==
    /\ agent_tasks = <<>>
    /\ agent_main = "none"

\* No other process holds one of the servers' ports.
Init ==
    /\ Constructed
    /\ use_https \in BOOLEAN
    /\ external = {}
    /\ agents = {}
    /\ NoAgent

\* HTTPS is configured and no other process holds one of the servers' ports.
InitFail ==
    /\ Constructed
    /\ use_https = TRUE
    /\ external = {}
    /\ agents = {}
    /\ NoAgent

\* Another process holds one of the servers' ports.
InitPorts ==
    /\ Constructed
    /\ use_https = TRUE
    /\ external \in {{p} : p \in Ports}
    /\ agents = {}
    /\ NoAgent

\* start_all without its guard against a second start.
StartAllNeverReturnsEarly == FALSE

\* start_all's early return: `if self.running: return`.
StartAllReturnsEarly == running

\* start_all past its early return.  `rdy` is the loop's ready queue once the
\* caller has been taken off it; create_task appends the two new tasks.
StartAllBody(rdy) ==
    LET c == cycle + 1
        new == NewUnits(c)
    IN  /\ stop_event' = FALSE
        /\ cycle' = c
        /\ units' = [u \in (DOMAIN units) \cup Range(new) |->
                        IF u \in DOMAIN units THEN units[u]
                        ELSE IF KindOf(u) \in TaskKinds THEN "pending"
                        ELSE "queued"]
        /\ ready' = rdy \o [i \in 1..2 |-> UnitEntry(new[i])]
        /\ protocol_tasks' = new
        /\ running' = TRUE
        /\ log' = "All protocols started in background."
        /\ UNCHANGED cancel_req

start_all(rdy) ==
    IF StartAllReturnsEarly
    THEN /\ ready' = rdy
         /\ log' = "Protocols are already running."
         /\ UNCHANGED manager_vars
    ELSE StartAllBody(rdy)

\* stop_all without its guard against a stop while stopped.
StopAllNeverReturnsEarly == FALSE

\* stop_all's early return: `if not self.running: return`.
StopAllReturnsEarly == ~running

\* stop_all when it returns early: only the log line.
StopAllNoOp ==
    /\ log' = "Protocols are not currently running."
    /\ UNCHANGED manager_vars

\* `isinstance(task, asyncio.Task)`: the HTTP and HTTPS tasks, not the futures
\* of the executor threads.
IsTask(u) == KindOf(u) \in TaskKinds

\* The tracked tasks stop_all calls cancel() on.
CancelTargets == {u \in Range(protocol_tasks) : IsTask(u)}

\* stop_all from `self.stop_event.set()` up to `await asyncio.sleep(1)`.
\* cancel() on a task waiting inside serve() schedules the wake-up that ends it;
\* on a finished task it does nothing.
StopAllSignal(rdy) ==
    LET woken == SelectSeq(protocol_tasks,
                    LAMBDA u : u \in CancelTargets /\ units[u] = "serving"
                               /\ u \notin cancel_req)
    IN  /\ stop_event' = TRUE
        /\ cancel_req' = cancel_req \cup CancelTargets
        /\ ready' = rdy \o [i \in 1..Len(woken) |-> UnitEntry(woken[i])]
        /\ log' = "Stopping all protocols..."
        /\ UNCHANGED <<running, protocol_tasks, units, cycle>>

\* stop_all that clears its bookkeeping but forgets `self.running = False`.
StopAllClearKeepsRunning ==
    /\ protocol_tasks' = <<>>
    /\ log' = "All protocols stopped."
    /\ UNCHANGED <<running, stop_event, units, cancel_req, cycle>>

\* stop_all after the sleep: `self.protocol_tasks.clear(); self.running = False`.
StopAllClear ==
    /\ protocol_tasks' = <<>>
    /\ running' = FALSE
    /\ log' = "All protocols stopped."
    /\ UNCHANGED <<stop_event, units, cancel_req, cycle>>

\* A stop_all that joins the executor threads before it goes on.
SleepOverAndThreadsJoined(r) ==
    /\ ready = <<>>
    /\ timers # <<>>
    /\ Head(timers) = r
    /\ \A u \in DOMAIN units : units[u] # "live"

\* When the sleeping stop_all may resume: its timer is the oldest one and the
\* loop has nothing ready to run before it.
SleepOver(r) ==
    /\ ready = <<>>
    /\ timers # <<>>
    /\ Head(timers) = r

\* ---------------------------------------------------------- control_server
\* A request can be handled once the loop has run what was ready before it.
\* A start or restart request is sent only while every start_all in progress
\* can still be given a fresh set of unit ids.
MayStart ==
    cycle + Cardinality({r \in InFlight : calls[r].action \in {"start", "restart"}}) < MaxCycles

Arrives(r) ==
    /\ nreq < MaxReq
    /\ r = nreq + 1
    /\ ready = <<>>

\* A new orchestrator call starts while the calls of InFlight are in progress.
Overlap(r) == IF InFlight = {} THEN overlapped ELSE overlapped \cup InFlight \cup {r}

\* An action check that ignores the case of the path parameter.
IsInvalidIgnoringCase(a) == a \notin ValidActions \cup {"START"}

\* `if action not in ["start", "stop", "restart"]: raise HTTPException(400)`.
IsInvalid(a) == a \notin ValidActions

ControlInvalid(a) ==
    /\ IsInvalid(a)
    /\ Arrives(nreq + 1)
    /\ nreq' = nreq + 1
    /\ last_response' = 400
    /\ UNCHANGED <<acked, manager_vars, calls, ready, timers, log, env_vars, rest_vars, overlapped>>

\* action == "start": asyncio.create_task(protocol_manager.start_all()).
ControlStart(a) ==
    LET r == nreq + 1
    IN  /\ ~IsInvalid(a)
        /\ a = "start"
        /\ Arrives(r)
        /\ MayStart
        /\ nreq' = r
        /\ calls' = Put(calls, r, [action |-> "start", pc |-> "start_all",
                                   response |-> 200])
        /\ ready' = Append(ready, CallEntry(r))
        /\ last_response' = 200
        /\ acked' = a
        /\ overlapped' = Overlap(r)
        /\ UNCHANGED <<manager_vars, timers, log, env_vars, rest_vars>>

\* action == "stop": asyncio.create_task(protocol_manager.stop_all()).
ControlStop(a) ==
    LET r == nreq + 1
    IN  /\ ~IsInvalid(a)
        /\ a = "stop"
        /\ Arrives(r)
        /\ nreq' = r
        /\ calls' = Put(calls, r, [action |-> "stop", pc |-> "stop_all",
                                   response |-> 200])
        /\ ready' = Append(ready, CallEntry(r))
        /\ last_response' = 200
        /\ acked' = a
        /\ overlapped' = Overlap(r)
        /\ UNCHANGED <<manager_vars, timers, log, env_vars, rest_vars>>

\* else (restart): `await protocol_manager.stop_all()` runs inside the
\* handler up to stop_all's sleep, or, when stop_all returns early, up to the
\* handler's own `await asyncio.sleep(1)`.
ControlRestart(a) ==
    LET r == nreq + 1
    IN  /\ ~IsInvalid(a)
        /\ a \notin {"start", "stop"}
        /\ Arrives(r)
        /\ MayStart
        /\ nreq' = r
        /\ timers' = Append(timers, r)
        /\ overlapped' = Overlap(r)
        /\ IF StopAllReturnsEarly
           THEN /\ calls' = Put(calls, r, [action |-> "restart", pc |-> "restart_sleep",
                                           response |-> NoResponse])
                /\ StopAllNoOp
                /\ UNCHANGED ready
           ELSE /\ calls' = Put(calls, r, [action |-> "restart", pc |-> "stop_all_sleep",
                                           response |-> NoResponse])
                /\ StopAllSignal(ready)
        /\ UNCHANGED <<last_response, acked, env_vars, rest_vars>>

\* The handler of POST /api/control/{action}.
control_server(a) ==
    \/ ControlInvalid(a)
    \/ ControlStart(a)
    \/ ControlStop(a)
    \/ ControlRestart(a)

\* The loop runs the start_all task at the head of the ready queue.
RunStartAll(r) ==
    /\ ready # <<>>
    /\ Head(ready) = CallEntry(r)
    /\ calls[r].pc = "start_all"
    /\ start_all(Tail(ready))
    /\ calls' = Drop(calls, r)
    /\ overlapped' = overlapped \ {r}
    /\ UNCHANGED <<nreq, timers, last_response, acked, env_vars, rest_vars>>

\* start_all up to a run_in_executor call that raises: the executor cannot
\* start a worker thread (RuntimeError from ThreadPoolExecutor.submit) after n
\* of the three server functions were submitted.  stop_event is cleared and
\* the two asyncio tasks exist; the assignments of protocol_tasks and running
\* are not reached.
StartAllRaisesAt(n, rdy) ==
    LET c == cycle + 1
        new == NewUnits(c)
        made == {new[i] : i \in 1..(2 + n)}
    IN  /\ stop_event' = FALSE
        /\ cycle' = c
        /\ units' = [u \in (DOMAIN units) \cup made |->
                        IF u \in DOMAIN units THEN units[u]
                        ELSE IF KindOf(u) \in TaskKinds THEN "pending"
                        ELSE "queued"]
        /\ ready' = rdy \o [i \in 1..2 |-> UnitEntry(new[i])]
        /\ log' = "Starting all protocols..."
        /\ UNCHANGED <<running, protocol_tasks, cancel_req>>

\* The loop runs a start_all task and start_all raises.  The task was made by
\* asyncio.create_task and nothing awaits it: the exception stays in the task,
\* and the response the handler gave stands.
StartAllRaises(r) ==
    /\ ready # <<>>
    /\ Head(ready) = CallEntry(r)
    /\ calls[r].pc = "start_all"
    /\ ~StartAllReturnsEarly
    /\ \E n \in 0..2 : StartAllRaisesAt(n, Tail(ready))
    /\ failed' = failed \cup {[call |-> r, response |-> calls[r].response]}
    /\ calls' = Drop(calls, r)
    /\ overlapped' = overlapped \ {r}
    /\ UNCHANGED <<nreq, timers, last_response, acked, env_vars, directory_vars,
                   channel_vars, host_vars>>

\* The loop runs the stop_all task at the head of the ready queue.
RunStopAll(r) ==
    /\ ready # <<>>
    /\ Head(ready) = CallEntry(r)
    /\ calls[r].pc = "stop_all"
    /\ IF StopAllReturnsEarly
       THEN /\ calls' = Drop(calls, r)
            /\ overlapped' = overlapped \ {r}
            /\ ready' = Tail(ready)
            /\ StopAllNoOp
            /\ UNCHANGED timers
       ELSE /\ calls' = Put(calls, r, [calls[r] EXCEPT !.pc = "stop_all_sleep"])
            /\ timers' = Append(timers, r)
            /\ StopAllSignal(Tail(ready))
            /\ UNCHANGED overlapped
    /\ UNCHANGED <<nreq, last_response, acked, env_vars, rest_vars>>

\* stop_all resumes after its sleep.  As a task of its own it is finished; in
\* a restart the handler goes on to `await asyncio.sleep(1)`.
ResumeStopAll(r) ==
    /\ r \in InFlight
    /\ calls[r].pc = "stop_all_sleep"
    /\ SleepOver(r)
    /\ StopAllClear
    /\ IF calls[r].action = "restart"
       THEN /\ calls' = Put(calls, r, [calls[r] EXCEPT !.pc = "restart_sleep"])
            /\ timers' = Append(Tail(timers), r)
            /\ UNCHANGED overlapped
       ELSE /\ calls' = Drop(calls, r)
            /\ timers' = Tail(timers)
            /\ overlapped' = overlapped \ {r}
    /\ UNCHANGED <<nreq, ready, last_response, acked, env_vars, rest_vars>>

\* The restart handler resumes after its own sleep:
\* asyncio.create_task(protocol_manager.start_all()), then the response.
ResumeRestart(r) ==
    /\ r \in InFlight
    /\ calls[r].pc = "restart_sleep"
    /\ SleepOver(r)
    /\ calls' = Put(calls, r, [calls[r] EXCEPT !.pc = "start_all", !.response = 200])
    /\ timers' = Tail(timers)
    /\ ready' = Append(ready, CallEntry(r))
    /\ last_response' = 200
    /\ acked' = calls[r].action
    /\ UNCHANGED <<manager_vars, nreq, log, env_vars, rest_vars, overlapped>>

\* ----------------------------------------------------------- listener units
\* A server that gives up when any of the servers' ports is taken.
ServerStartChecksEveryPort(u) ==
    IF \E p \in Ports : is_port_in_use(p) THEN "exited" ELSE "serving"

\* run_http_server / run_https_server up to `await server.serve()`:
\* `if is_port_in_use(port): log; return`, otherwise the server binds and serves.
ServerStart(u) ==
    IF is_port_in_use(PortOf(KindOf(u))) THEN "exited" ELSE "serving"

\* The loop runs an HTTP or HTTPS task: its first step, or, once cancel() was
\* requested, the CancelledError that ends it (`except Exception` lets it pass).
RunTask(u) ==
    /\ ready # <<>>
    /\ Head(ready) = UnitEntry(u)
    /\ ready' = Tail(ready)
    /\ units' = [units EXCEPT ![u] =
                    IF u \in cancel_req THEN "cancelled" ELSE ServerStart(u)]
    /\ UNCHANGED <<running, stop_event, protocol_tasks, cancel_req, cycle, calls,
                   nreq, timers, last_response, acked, log, env_vars, rest_vars, overlapped>>

\* start_smb_server / start_dns_server / start_icmp_server up to their loop:
\* the SMB and DNS servers return when their port is in use or their bind
\* fails.
ThreadBegin(u) ==
    IF /\ PortOf(KindOf(u)) # NoPort
       /\ is_port_in_use(PortOf(KindOf(u))) \/ BindFails(PortOf(KindOf(u)))
    THEN "exited" ELSE "live"

\* stop_system_dns_service and start_system_dns_service: `systemctl stop` and
\* `systemctl start` of systemd-resolved, added to the calls s made so far.
stop_system_dns_service(s) == Append(s, "stop")

start_system_dns_service(s) == Append(s, "start")

\* A start_dns_server whose bind failure returns without the restart.
BindFailureOnlyReturns(s) == s

\* start_dns_server's three ways out: port 53 still in use, the bind raised,
\* the loop was left (the finally clause).
PortInUseReturns(s) == start_system_dns_service(s)

BindFailureReturns(s) == start_system_dns_service(s)

LoopExitReturns(s) == start_system_dns_service(s)

\* The systemctl calls on record once the thread of u has made the calls s;
\* only the DNS server makes any.
Recorded(u, s) ==
    IF KindOf(u) = "dns" THEN Put(systemctl, u, s) ELSE systemctl

CallsOf(u) == IF u \in DOMAIN systemctl THEN systemctl[u] ELSE <<>>

\* start_dns_server from its first line to the loop, or to its return.
DnsBegin ==
    LET s == stop_system_dns_service(<<>>)
    IN  IF is_port_in_use(PortOf("dns")) THEN PortInUseReturns(s)
        ELSE IF BindFails(PortOf("dns")) THEN BindFailureReturns(s)
        ELSE s

\* An executor thread takes a submitted server function.
ThreadStart(u) ==
    /\ u \in DOMAIN units
    /\ units[u] = "queued"
    /\ Cardinality(BusyWorkers) < max_workers
    /\ units' = [units EXCEPT ![u] = ThreadBegin(u)]
    /\ systemctl' = Recorded(u, DnsBegin)
    /\ UNCHANGED <<running, stop_event, protocol_tasks, cancel_req, cycle, calls,
                   nreq, ready, timers, last_response, acked, log, env_vars, failed,
                   directory_vars, channel_vars, echo, overlapped>>

\* What lets a server thread leave its loop: `while not stop_event.is_set()`
\* (SMB, DNS) and `stop_filter=lambda pkt: stop_event.is_set()` (ICMP).
ThreadSeesStop(u) == stop_event

\* The servers whose loop tests stop_event on its own: the SMB server after
\* every time.sleep(1), the DNS server after every recvfrom, which returns or
\* times out within a second.
TestsStopItself(u) == KindOf(u) \in {"smb", "dns"}

\* An SMB or DNS server thread observes the stop signal and returns.
ThreadExit(u) ==
    /\ u \in DOMAIN units
    /\ units[u] = "live"
    /\ TestsStopItself(u)
    /\ ThreadSeesStop(u)
    /\ units' = [units EXCEPT ![u] = "exited"]
    /\ systemctl' = Recorded(u, LoopExitReturns(CallsOf(u)))
    /\ UNCHANGED <<running, stop_event, protocol_tasks, cancel_req, cycle, calls,
                   nreq, ready, timers, last_response, acked, log, env_vars, failed,
                   directory_vars, channel_vars, echo, overlapped>>

\* The same start in the two steps other threads can come between: the test
\* of is_port_in_use, then the bind.
ThreadCheck(u) ==
    /\ u \in DOMAIN units
    /\ units[u] = "queued"
    /\ Cardinality(BusyWorkers) < max_workers
    /\ units' = [units EXCEPT ![u] =
                    IF PortOf(KindOf(u)) = NoPort THEN "live"
                    ELSE IF is_port_in_use(PortOf(KindOf(u))) THEN "exited"
                    ELSE "checked"]
    /\ systemctl' = Recorded(u, LET s == stop_system_dns_service(<<>>)
                                 IN  IF is_port_in_use(PortOf("dns"))
                                     THEN PortInUseReturns(s) ELSE s)
    /\ UNCHANGED <<running, stop_event, protocol_tasks, cancel_req, cycle, calls,
                   nreq, ready, timers, last_response, acked, log, env_vars, failed,
                   directory_vars, channel_vars, echo, overlapped>>

ThreadBind(u) ==
    /\ u \in DOMAIN units
    /\ units[u] = "checked"
    /\ units' = [units EXCEPT ![u] =
                    IF BindFails(PortOf(KindOf(u))) THEN "exited" ELSE "live"]
    /\ systemctl' = Recorded(u, IF BindFails(PortOf("dns"))
                                 THEN BindFailureReturns(CallsOf(u))
                                 ELSE CallsOf(u))
    /\ UNCHANGED <<running, stop_event, protocol_tasks, cancel_req, cycle, calls,
                   nreq, ready, timers, last_response, acked, log, env_vars, failed,
                   directory_vars, channel_vars, echo, overlapped>>

\* An ICMP packet reaches the sniffer: scapy's sniff() calls prn and then
\* stop_filter for a captured packet, and only then; with the signal set the
\* sniffer returns.  (With the signal clear the packet changes nothing.)
SnifferStop(u) ==
    /\ u \in DOMAIN units
    /\ units[u] = "live"
    /\ ~TestsStopItself(u)
    /\ ThreadSeesStop(u)
    /\ units' = [units EXCEPT ![u] = "exited"]
    /\ UNCHANGED <<running, stop_event, protocol_tasks, cancel_req, cycle, calls,
                   nreq, ready, timers, last_response, acked, log, env_vars, rest_vars, overlapped>>

\* The <<identifier, sequence number>> pairs of the echo-requests that arrive.
EchoRequests == {<<1, 1>>, <<2, 1>>}

\* The sniffers that capture a packet arriving now: every start_icmp_server
\* thread that is inside sniff().
Sniffing == {u \in DOMAIN units : KindOf(u) = "icmp" /\ units[u] = "live"}

\* An ICMP echo-request (type 8) arrives at the host, the one before it having
\* been handled by every sniffer that captured it.
EchoArrives(q) ==
    /\ echo.todo = {}
    /\ echo' = [arrived |-> TRUE, running |-> running, request |-> q,
                todo |-> Sniffing, replies |-> <<>>]
    /\ UNCHANGED <<manager_vars, calls, nreq, ready, timers, last_response, acked, log,
                   env_vars, failed, directory_vars, channel_vars, systemctl,
                   overlapped>>

\* handle_icmp_request for a packet of type 8: one echo-reply (type 0) with
\* the identifier and the sequence number of the packet is sent.
handle_icmp_request(pkt, sent) == Append(sent, pkt)

\* sniff() in the thread of u gets to the packet: prn, then stop_filter, and
\* with stop_event set the sniffer returns.
SnifferHandles(u) ==
    /\ u \in echo.todo
    /\ echo' = [echo EXCEPT !.todo = @ \ {u},
                            !.replies = handle_icmp_request(echo.request, @)]
    /\ units' = [units EXCEPT ![u] = IF ThreadSeesStop(u) THEN "exited" ELSE @]
    /\ UNCHANGED <<running, stop_event, protocol_tasks, cancel_req, cycle, calls,
                   nreq, ready, timers, last_response, acked, log, env_vars, failed,
                   directory_vars, channel_vars, systemctl, overlapped>>

\* ------------------------------------------------------------ specification
Requests == 1..MaxReq

AllUnits == {Unit(c, k) : c \in 1..MaxCycles, k \in Kinds}

\* What runs without waiting for anything outside the server: the event loop
\* runs what is ready and fires the timers that are due.
LoopStep ==
    \/ \E r \in Requests : RunStartAll(r)
    \/ \E r \in Requests : RunStopAll(r)
    \/ \E r \in Requests : ResumeStopAll(r)
    \/ \E r \in Requests : ResumeRestart(r)
    \/ \E u \in AllUnits : RunTask(u)

Next ==
    \/ \E a \in Actions : control_server(a)
    \/ LoopStep
    \/ \E u \in AllUnits : ThreadStart(u)
    \/ \E u \in AllUnits : ThreadExit(u)
    \/ \E u \in AllUnits : SnifferStop(u)

\* The server threads start in two steps.  The requests are those with a
\* valid action, the only ones that reach the manager, and no ICMP packet
\* arrives: the sniffers, which hold no port, stay.
NextBind ==
    \/ \E a \in ValidActions : ControlStart(a)
    \/ \E a \in ValidActions : ControlStop(a)
    \/ \E a \in ValidActions : ControlRestart(a)
    \/ LoopStep
    \/ \E u \in AllUnits : ThreadExit(u)
    \/ \E u \in AllUnits : ThreadCheck(u)
    \/ \E u \in AllUnits : ThreadBind(u)

SpecBind == InitFail /\ [][NextBind]_vars

\* The valid requests, the loop, the server threads, and ICMP echo-requests
\* that arrive at any moment.
NextIcmp ==
    \/ \E a \in ValidActions : ControlStart(a)
    \/ \E a \in ValidActions : ControlStop(a)
    \/ \E a \in ValidActions : ControlRestart(a)
    \/ LoopStep
    \/ \E u \in AllUnits : ThreadStart(u)
    \/ \E u \in AllUnits : ThreadExit(u)
    \/ \E q \in EchoRequests : EchoArrives(q)
    \/ \E u \in AllUnits : SnifferHandles(u)

SpecIcmp == InitFail /\ [][NextIcmp]_vars

Spec == Init /\ [][Next]_vars

\* The loop goes on, the executor starts the functions submitted to it, and
\* a server that tests stop_event itself gets to its test.  Nothing is
\* assumed about requests or about ICMP traffic.
Fairness ==
    /\ WF_vars(LoopStep)
    /\ \A u \in AllUnits : WF_vars(ThreadStart(u))
    /\ \A u \in AllUnits : WF_vars(ThreadExit(u))

SpecLive == InitFail /\ [][Next]_vars /\ Fairness

SpecPorts == InitPorts /\ [][Next]_vars

\* The executor may fail to start a thread.
NextFail ==
    \/ Next
    \/ \E r \in Requests : StartAllRaises(r)

SpecFail == InitFail /\ [][NextFail]_vars

\* ---------------------------------------------------------------- Directory
\* agent_manager_pg.py keeps the agents in one PostgreSQL table.  The API
\* endpoints that call it are plain functions, which FastAPI runs on worker
\* threads: Directory calls interleave at every database round trip.  Each call
\* opens its own session; a query reads the committed rows, and
\* session.commit() writes, for a loaded object, the columns whose value the
\* call changed, and for a new object a row, which the UNIQUE constraint on
\* agent_id can refuse.

\* Directory calls of a behaviour.
MaxCalls == 2

\* Transports enabled in the agent's configuration.
MaxEnabled == 2

\* The first token str(uuid.uuid4()) gives in a run.
uuid4First == 1

AgentIds == {"A", "B"}

IpAddresses == {"10.0.0.1", "10.0.0.2"}

StatusValues == {"Online", "Offline"}

\* The `status: str` argument of update_agent_status: any string of the
\* caller, the two of the enum and one outside it.
StatusArguments == StatusValues \cup {"Busy"}

DirectoryCalls == 1..MaxCalls

\* str(uuid.uuid4()) gives tokens 1, 2, ...; NoToken is a token never issued,
\* EarlierToken the token of an agent registered in an earlier run.
NoToken == 0

EarlierToken == MaxCalls + 1

\* The tokens an agent presents to authenticate_agent: one never issued, the
\* first one of this run, and the one of the earlier run.
Tokens == {NoToken, uuid4First, EarlierToken}

\* `.first()` returning None.
NoRow == [id |-> 0, agent_id |-> "none", auth_token |-> NoToken,
          ip_address |-> "none", registered_at |-> 0, last_seen |-> 0,
          status |-> "none"]

\* The row of an agent that registered in an earlier run of the server.
EarlierAgent ==
    [id |-> MaxCalls + 1, agent_id |-> "B", auth_token |-> EarlierToken,
     ip_address |-> "10.0.0.2", registered_at |-> 0, last_seen |-> 0,
     status |-> "Offline"]

\* The columns of Agent a call can assign.
Columns == {"auth_token", "ip_address", "registered_at", "last_seen", "status"}

\* session.query(Agent).filter(Agent.agent_id == agent_id)
Matching(a) == {row \in agents : row.agent_id = a}

\* session.query(Agent).filter(Agent.agent_id == agent_id).first()
First(a) ==
    IF Matching(a) = {} THEN NoRow
    ELSE CHOOSE row \in Matching(a) : \A o \in Matching(a) : row.id <= o.id

\* str(uuid.uuid4()): a token no earlier call produced.
uuid4 == ntoken + 1

\* A commit that writes every column of the loaded object back.
EveryColumn(loaded, obj) == Columns

\* The columns of a loaded object whose value the call changed.
Dirty(loaded, obj) == {col \in Columns : obj[col] # loaded[col]}

\* The UPDATE that session.commit() emits for a loaded object:
\* UPDATE agents SET <changed columns> WHERE id = <loaded id>.
Update(loaded, obj) ==
    {IF row.id = loaded.id
     THEN [col \in DOMAIN row |->
              IF col \in Dirty(loaded, obj) THEN obj[col] ELSE row[col]]
     ELSE row : row \in agents}

\* An agent_id column without the UNIQUE constraint.
NoUniqueConstraint(a) == FALSE

\* `agent_id = Column(String, unique=True, ...)`: an INSERT of an agent_id
\* that a committed row holds raises IntegrityError.
UniqueViolation(a) == \E row \in agents : row.agent_id = a

\* datetime.datetime.utcnow() on a clock that does not run backwards: the
\* reading is the one before, or a later one.
utcnow == {clock, clock + 1}

\* register_agent: `session = SessionLocal(); now = utcnow()`.
RegisterBegin(a, ip) ==
    /\ ncall < MaxCalls
    /\ ncall' = ncall + 1
    /\ clock' \in utcnow
    /\ sessions' = Put(sessions, ncall + 1,
                       [op |-> "register", agent_id |-> a, ip_address |-> ip,
                        status |-> "Online", now |-> clock', loaded |-> NoRow,
                        auth_token |-> NoToken, pc |-> "query"])
    /\ UNCHANGED <<agents, ntoken, issued, result, control_vars, channel_vars>>

\* A register_agent that gives a known agent a token of its own making.
FreshTokenForKnownAgent(agent) == uuid4

\* `auth_token = agent.auth_token` of an agent that exists.
ExistingToken(agent) == agent.auth_token

\* register_agent: the query and the branch on its result, up to commit.
RegisterQuery(c) ==
    /\ c \in DOMAIN sessions
    /\ sessions[c].op = "register"
    /\ sessions[c].pc = "query"
    /\ LET agent == First(sessions[c].agent_id)
       IN  IF agent # NoRow
           THEN /\ sessions' = [sessions EXCEPT ![c].loaded = agent,
                                                ![c].auth_token = ExistingToken(agent),
                                                ![c].pc = "commit"]
                /\ UNCHANGED ntoken
           ELSE /\ sessions' = [sessions EXCEPT ![c].auth_token = uuid4,
                                                ![c].pc = "commit"]
                /\ ntoken' = ntoken + 1
    /\ UNCHANGED <<agents, clock, ncall, issued, result, control_vars, channel_vars>>

\* Agent(agent_id=..., auth_token=..., ip_address=..., registered_at=now,
\* last_seen=now, status="Online") of a new agent.
NewAgent(c, s) ==
    [id |-> c, agent_id |-> s.agent_id, auth_token |-> s.auth_token,
     ip_address |-> s.ip_address, registered_at |-> s.now, last_seen |-> s.now,
     status |-> "Online"]

\* A register_agent that also gives a known agent a new stored token.
RegisterChangesRotatingToken(s) ==
    [s.loaded EXCEPT !.last_seen = s.now, !.ip_address = s.ip_address,
                     !.status = "Online", !.auth_token = uuid4]

\* The assignments to an agent that exists: last_seen, ip_address, status.
RegisterChanges(s) ==
    [s.loaded EXCEPT !.last_seen = s.now, !.ip_address = s.ip_address,
                     !.status = "Online"]

\* A register_agent that swallows the exception of commit and returns the token.
RegisterOutcomeAlwaysToken(committed, token) ==
    [outcome |-> "token", token |-> token]

\* What register_agent gives its caller: the token after a commit that
\* succeeded, the exception of a commit that failed.
RegisterOutcome(committed, token) ==
    IF committed THEN [outcome |-> "token", token |-> token]
    ELSE [outcome |-> "raised", token |-> NoToken]

\* The end of a register_agent call.
RegisterEnds(c, committed) ==
    LET s == sessions[c]
        out == RegisterOutcome(committed, s.auth_token)
    IN  /\ result' = [op |-> "register", agent_id |-> s.agent_id,
                      outcome |-> out.outcome, token |-> out.token, list |-> <<>>]
        /\ issued' = IF out.outcome = "token"
                     THEN issued \cup {<<s.agent_id, out.token>>} ELSE issued
        /\ sessions' = Drop(sessions, c)

\* register_agent: session.commit(), session.close(), return auth_token.
RegisterCommit(c) ==
    /\ c \in DOMAIN sessions
    /\ sessions[c].op = "register"
    /\ sessions[c].pc = "commit"
    /\ LET s == sessions[c]
       IN  IF s.loaded # NoRow
           THEN /\ agents' = Update(s.loaded, RegisterChanges(s))
                /\ RegisterEnds(c, TRUE)
           ELSE IF UniqueViolation(s.agent_id)
           THEN /\ UNCHANGED agents
                /\ RegisterEnds(c, FALSE)
           ELSE /\ agents' = agents \cup {NewAgent(c, s)}
                /\ RegisterEnds(c, TRUE)
    /\ UNCHANGED <<clock, ncall, ntoken, control_vars, channel_vars>>

\* session.commit() of register_agent fails for a reason of the database
\* (connection lost): nothing is written and the exception reaches the caller.
RegisterCommitFails(c) ==
    /\ c \in DOMAIN sessions
    /\ sessions[c].op = "register"
    /\ sessions[c].pc = "commit"
    /\ RegisterEnds(c, FALSE)
    /\ UNCHANGED <<agents, clock, ncall, ntoken, control_vars, channel_vars>>

\* The end of an update_agent_status call: it returns None.
UpdateEnds(a) ==
    result' = [op |-> "update_status", agent_id |-> a, outcome |-> "returned",
               token |-> NoToken, list |-> <<>>]

\* update_agent_status: the query; with no agent the call closes and returns.
UpdateQuery(a, st) ==
    /\ ncall < MaxCalls
    /\ ncall' = ncall + 1
    /\ LET agent == First(a)
       IN  IF agent = NoRow
           THEN /\ UpdateEnds(a)
                /\ UNCHANGED sessions
           ELSE /\ sessions' = Put(sessions, ncall + 1,
                                   [op |-> "update_status", agent_id |-> a,
                                    ip_address |-> agent.ip_address, status |-> st,
                                    now |-> agent.last_seen, loaded |-> agent,
                                    auth_token |-> agent.auth_token, pc |-> "stamp"])
                /\ UNCHANGED result
    /\ UNCHANGED <<agents, clock, ntoken, issued, control_vars, channel_vars>>

\* update_agent_status: `agent.status = status; agent.last_seen = utcnow()`.
UpdateStamp(c) ==
    /\ c \in DOMAIN sessions
    /\ sessions[c].pc = "stamp"
    /\ clock' \in utcnow
    /\ sessions' = [sessions EXCEPT ![c].now = clock', ![c].pc = "commit"]
    /\ UNCHANGED <<agents, ncall, ntoken, issued, result, control_vars, channel_vars>>

\* The assignments of update_agent_status: status and last_seen.
UpdateChanges(s) == [s.loaded EXCEPT !.status = s.status, !.last_seen = s.now]

\* update_agent_status: session.commit(), session.close().
UpdateCommit(c) ==
    /\ c \in DOMAIN sessions
    /\ sessions[c].op = "update_status"
    /\ sessions[c].pc = "commit"
    /\ agents' = Update(sessions[c].loaded, UpdateChanges(sessions[c]))
    /\ UpdateEnds(sessions[c].agent_id)
    /\ sessions' = Drop(sessions, c)
    /\ UNCHANGED <<clock, ncall, ntoken, issued, control_vars, channel_vars>>

\* An authenticate_agent that only looks for the agent.
AuthenticateKnownAgent(a, t) == First(a) # NoRow

\* authenticate_agent: `agent is not None and agent.auth_token == auth_token`.
authenticate_agent(a, t) ==
    LET agent == First(a)
    IN  agent # NoRow /\ agent.auth_token = t

\* A call of authenticate_agent: one query, then the comparison.
Authenticate(a, t) ==
    /\ result' = [op |-> "authenticate", agent_id |-> a,
                  outcome |-> IF authenticate_agent(a, t) THEN "true" ELSE "false",
                  token |-> t, list |-> <<>>]
    /\ UNCHANGED <<agents, clock, sessions, ncall, ntoken, issued, control_vars, channel_vars>>

\* datetime.isoformat(): the text of a timestamp.
isoformat(t) == <<"iso", t>>

\* A listing whose entries carry the token as well.
EntryWithToken(row) ==
    [agent_id |-> row.agent_id, auth_token |-> row.auth_token,
     ip_address |-> row.ip_address,
     registered_at |-> isoformat(row.registered_at),
     last_seen |-> isoformat(row.last_seen), status |-> row.status]

\* The dictionary list_agents makes of one row.
Entry(row) ==
    [agent_id |-> row.agent_id, ip_address |-> row.ip_address,
     registered_at |-> isoformat(row.registered_at),
     last_seen |-> isoformat(row.last_seen), status |-> row.status]

\* `session.query(Agent).all()` has no ORDER BY: the rows come in any order.
Orders(rows) ==
    {o \in [1..Cardinality(rows) -> rows] :
        \A i, j \in DOMAIN o : i # j => o[i] # o[j]}

\* list_agents, given the rows in the order the query returned them.
list_agents(o) == [i \in DOMAIN o |-> Entry(o[i])]

\* A call of list_agents (GET /api/agent/list returns its list as it is).
ListAgents ==
    /\ \E o \in Orders(agents) :
         result' = [op |-> "list", agent_id |-> "none", outcome |-> "returned",
                    token |-> NoToken, list |-> list_agents(o)]
    /\ UNCHANGED <<agents, clock, sessions, ncall, ntoken, issued, control_vars, channel_vars>>

NextDirectory ==
    \/ \E a \in AgentIds, ip \in IpAddresses : RegisterBegin(a, ip)
    \/ \E c \in DirectoryCalls : RegisterQuery(c)
    \/ \E c \in DirectoryCalls : RegisterCommit(c)
    \/ \E c \in DirectoryCalls : RegisterCommitFails(c)
    \/ \E a \in AgentIds, st \in StatusArguments : UpdateQuery(a, st)
    \/ \E c \in DirectoryCalls : UpdateStamp(c)
    \/ \E c \in DirectoryCalls : UpdateCommit(c)

\* init_db() creates the table when it is missing and keeps the rows of an
\* earlier run: the table starts empty, or with an agent registered before,
\* whose status is the one its last register or update_status left.
InitDirectory ==
    /\ Constructed
    /\ use_https = TRUE
    /\ external = {}
    /\ agents \in {{}} \cup {{[EarlierAgent EXCEPT !.status = st]} :
                                 st \in StatusValues}
    /\ NoAgent

\* The calls that write the Directory: the manager stays as constructed.
SpecDirectory == InitDirectory /\ [][NextDirectory]_vars

\* The same calls, with authenticate_agent called at any moment among them.
NextAuthenticate ==
    \/ NextDirectory
    \/ \E a \in AgentIds, t \in Tokens : Authenticate(a, t)

SpecAuthenticate == InitDirectory /\ [][NextAuthenticate]_vars

\* The calls that write the Directory, with list_agents called at any moment
\* among them.
NextList ==
    \/ NextDirectory
    \/ ListAgents

SpecList == InitDirectory /\ [][NextList]_vars

\* ----------------------------------------------------------- agent channels
\* Agent/protocols: the operations of HTTPComm, DNSComm, ICMPComm and SMBComm,
\* each as a function of what the network gives the one request it makes.
\* Python values are named by their literals.  An operation body returns a
\* value, raises, or falls out of its try block.
Return(v) == [kind |-> "return", value |-> v]

Raise == [kind |-> "raise", value |-> "none"]

Fall == [kind |-> "fall", value |-> "none"]

\* `try: <body> except Exception as e: logger.error(...)` and, after it,
\* `return <fallback>`.
Try(body, fallback) ==
    [raised |-> FALSE,
     value |-> IF body.kind = "return" THEN body.value ELSE fallback]

\* The JSON values a field of a response body can hold, as json() gives them:
\* null, a number, strings, arrays, an object.
JsonStrings == {"''", "'ack'"}

JsonArrays == {"[]", "['whoami']", "['whoami', 'id']"}

JsonValues == {"None", "7", "{}"} \cup JsonStrings \cup JsonArrays

HttpStatuses == {200, 404, 500}

Outcome(n, st, b, f) == [net |-> n, status |-> st, body |-> b, field |-> f]

\* What requests.get / requests.post can meet: an exception of requests, or a
\* response with a status and a body that is no JSON, a JSON array, or a JSON
\* object in which the field the operation reads is absent or holds a value.
HttpOutcomes ==
    {Outcome(n, 0, "none", "absent") : n \in {"connection_error", "timeout"}}
    \cup {Outcome("response", st, b, "absent") :
            st \in HttpStatuses, b \in {"not_json", "array", "object"}}
    \cup {Outcome("response", st, "object", f) : st \in HttpStatuses, f \in JsonValues}

\* `response.json().get(key, default)`: json() raises on a body that is no
\* JSON, and a JSON array has no get.
json_get(n, default) ==
    IF n.body # "object" THEN Raise
    ELSE Return(IF n.field = "absent" THEN default ELSE n.field)

HTTP_poll_commands(n) ==
    Try(IF n.net # "response" THEN Raise
        ELSE IF n.status = 200 THEN json_get(n, "[]") ELSE Fall,
        "[]")

HTTP_send_output(n) ==
    Try(IF n.net # "response" THEN Raise
        ELSE IF n.status = 200 THEN Return("True") ELSE Fall,
        "False")

HTTP_send_message(n) ==
    Try(IF n.net # "response" THEN Raise
        ELSE IF n.status = 200 THEN json_get(n, "''") ELSE Fall,
        "''")

HTTP_heartbeat(n) ==
    Try(IF n.net # "response" THEN Raise
        ELSE IF n.status = 200 THEN Return("True") ELSE Fall,
        "False")

\* What dns.query.udp can meet: an exception of dnspython, or a response with
\* no answer, an answer whose items have no strings, a TXT answer, or a TXT
\* answer whose bytes are no UTF-8.
DnsOutcomes ==
    {Outcome(n, 0, "none", "absent") : n \in {"connection_error", "timeout", "malformed"}}
    \cup {Outcome("response", 0, b, "absent") : b \in {"no_answer", "no_strings", "not_utf8"}}
    \cup {Outcome("response", 0, "txt", "'ack'")}

DNS_send_message(n) ==
    Try(IF n.net # "response" \/ n.body = "not_utf8" THEN Raise
        ELSE IF n.body = "txt" THEN Return(n.field) ELSE Fall,
        "''")

\* Variant: polling over DNS asks the server as send_message does.
DNS_poll_commandsAsQuery(n) ==
    Try(IF n.net # "response" \/ n.body = "not_utf8" THEN Raise
        ELSE IF n.body = "txt" THEN Return(n.field) ELSE Fall,
        "''")

DNS_poll_commands(n) == [raised |-> FALSE, value |-> "[]"]

\* What sr1 can meet: an exception of the socket, no reply in time (None), a
\* reply without an ICMP layer, an ICMP reply without a payload, or one with.
IcmpOutcomes ==
    {Outcome(n, 0, "none", "absent") : n \in {"connection_error", "timeout"}}
    \cup {Outcome("response", 0, b, "absent") : b \in {"no_icmp", "no_payload"}}
    \cup {Outcome("response", 0, "payload", "'ack'")}

ICMP_send_message(n) ==
    Try(IF n.net = "connection_error" \/ (n.net = "response" /\ n.body = "no_payload")
        THEN Raise
        ELSE IF n.net = "response" /\ n.body = "payload" THEN Return(n.field)
        ELSE Fall,
        "''")

ICMP_poll_commands(n) == [raised |-> FALSE, value |-> "[]"]

\* `logger.info("... heartbeat not implemented")` and the end of the function.
DNS_heartbeat(n) == [raised |-> FALSE, value |-> "None"]

ICMP_heartbeat(n) == [raised |-> FALSE, value |-> "None"]

\* SMBComm makes no request: whatever the network would give, it is not asked.
SmbOutcomes ==
    {Outcome(n, 0, "none", "absent") : n \in {"connection_error", "timeout", "response"}}

SMB_send_message(n) == [raised |-> FALSE, value |-> "''"]

SMB_poll_commands(n) == [raised |-> FALSE, value |-> "[]"]

SMB_heartbeat(n) == [raised |-> FALSE, value |-> "None"]

\* The operations whose code calls the network: requests.get / requests.post
\* in every operation of HTTPComm, dns.query.udp and sr1 in the send_message
\* of DNSComm and ICMPComm.
Asks(ch, op) ==
    \/ ch = "http"
    \/ ch \in {"dns", "icmp"} /\ op = "send_message"

\* The keys of the params/json dictionary that an HTTP operation hands to
\* requests.get or requests.post; the other channels send no dictionary.
Payload(ch, op) ==
    IF ch # "http" THEN {}
    ELSE CASE op = "poll_commands" -> {"agent_id", "auth_token"}
           [] op = "send_output"   -> {"agent_id", "auth_token", "output"}
           [] op = "send_message"  -> {"message"}
           [] op = "heartbeat"     -> {"agent_id", "auth_token"}

\* The record of an operation of channel ch that ended with r; n is what the
\* network gives to an operation that asks it.
Operation(ch, op, n, r) ==
    [channel |-> ch, op |-> op, net |-> n.net, status |-> n.status,
     body |-> n.body, field |-> n.field, asked |-> Asks(ch, op),
     payload |-> Payload(ch, op), raised |-> r.raised, value |-> r.value]

HttpPoll ==
    /\ \E n \in HttpOutcomes :
         channel_result' = Operation("http", "poll_commands", n, HTTP_poll_commands(n))
    /\ UNCHANGED <<control_vars, directory_vars, agent_vars>>

HttpSendOutput ==
    /\ \E n \in HttpOutcomes :
         channel_result' = Operation("http", "send_output", n, HTTP_send_output(n))
    /\ UNCHANGED <<control_vars, directory_vars, agent_vars>>

HttpSendMessage ==
    /\ \E n \in HttpOutcomes :
         channel_result' = Operation("http", "send_message", n, HTTP_send_message(n))
    /\ UNCHANGED <<control_vars, directory_vars, agent_vars>>

HttpHeartbeat ==
    /\ \E n \in HttpOutcomes :
         channel_result' = Operation("http", "heartbeat", n, HTTP_heartbeat(n))
    /\ UNCHANGED <<control_vars, directory_vars, agent_vars>>

DnsSendMessage ==
    /\ \E n \in DnsOutcomes :
         channel_result' = Operation("dns", "send_message", n, DNS_send_message(n))
    /\ UNCHANGED <<control_vars, directory_vars, agent_vars>>

DnsPoll ==
    /\ \E n \in DnsOutcomes :
         channel_result' = Operation("dns", "poll_commands", n, DNS_poll_commands(n))
    /\ UNCHANGED <<control_vars, directory_vars, agent_vars>>

IcmpSendMessage ==
    /\ \E n \in IcmpOutcomes :
         channel_result' = Operation("icmp", "send_message", n, ICMP_send_message(n))
    /\ UNCHANGED <<control_vars, directory_vars, agent_vars>>

IcmpPoll ==
    /\ \E n \in IcmpOutcomes :
         channel_result' = Operation("icmp", "poll_commands", n, ICMP_poll_commands(n))
    /\ UNCHANGED <<control_vars, directory_vars, agent_vars>>

SmbSendMessage ==
    /\ \E n \in SmbOutcomes :
         channel_result' = Operation("smb", "send_message", n, SMB_send_message(n))
    /\ UNCHANGED <<control_vars, directory_vars, agent_vars>>

SmbPoll ==
    /\ \E n \in SmbOutcomes :
         channel_result' = Operation("smb", "poll_commands", n, SMB_poll_commands(n))
    /\ UNCHANGED <<control_vars, directory_vars, agent_vars>>

DnsHeartbeat ==
    /\ \E n \in DnsOutcomes :
         channel_result' = Operation("dns", "heartbeat", n, DNS_heartbeat(n))
    /\ UNCHANGED <<control_vars, directory_vars, agent_vars>>

IcmpHeartbeat ==
    /\ \E n \in IcmpOutcomes :
         channel_result' = Operation("icmp", "heartbeat", n, ICMP_heartbeat(n))
    /\ UNCHANGED <<control_vars, directory_vars, agent_vars>>

SmbHeartbeat ==
    /\ \E n \in SmbOutcomes :
         channel_result' = Operation("smb", "heartbeat", n, SMB_heartbeat(n))
    /\ UNCHANGED <<control_vars, directory_vars, agent_vars>>

NextChannel ==
    \/ HttpPoll
    \/ HttpSendOutput
    \/ HttpSendMessage
    \/ HttpHeartbeat
    \/ DnsSendMessage
    \/ DnsPoll
    \/ IcmpSendMessage
    \/ IcmpPoll
    \/ SmbSendMessage
    \/ SmbPoll
    \/ DnsHeartbeat
    \/ IcmpHeartbeat
    \/ SmbHeartbeat

\* The channels of one agent alone.
SpecChannel == InitFail /\ [][NextChannel]_vars

\* ------------------------------------------------------------ agent tasks
\* Agent/agent_main.py.  main() makes one polling and one heartbeat task for
\* every enabled transport, then the configuration and the update task, and
\* awaits asyncio.gather(*tasks).  The tasks share one event loop: a task
\* runs without interruption up to its `await asyncio.sleep(...)`.
Transports == <<"http", "dns", "icmp", "smb">>

\* protocols_config: the sets of transports whose "enabled" is true.
Configs ==
    {c \in SUBSET {Transports[i] : i \in 1..Len(Transports)} : Cardinality(c) <= MaxEnabled}

\* asyncio.create_task(...): the task is ready to run its first step.
Task(kind, ch) ==
    [kind |-> kind, channel |-> ch, pc |-> "ready", commands |-> <<>>,
     result |-> "none", trace |-> <<>>, calls |-> 0]

RECURSIVE TransportTasks(_, _)
TransportTasks(i, enabled) ==
    IF i > Len(Transports) THEN <<>>
    ELSE (IF Transports[i] \in enabled
          THEN <<Task("poll", Transports[i]), Task("heartbeat", Transports[i])>>
          ELSE <<>>)
         \o TransportTasks(i + 1, enabled)

\* The `tasks` list when main() reaches `await asyncio.gather(*tasks)`.
MainTasks(enabled) ==
    TransportTasks(1, enabled) \o <<Task("config", "none"), Task("update", "none")>>

\* Positions of the `tasks` list: at most two tasks a transport, and two more.
AllTaskIds == 1..(2 * Len(Transports) + 2)

TaskIds == DOMAIN agent_tasks

\* No task is between two of its awaits: the event loop is free to run one.
LoopFree == \A t \in TaskIds : agent_tasks[t].pc \in {"ready", "sleeping", "failed", "cancelled"}

\* poll_commands of the channel of a task.
poll_commands(ch, n) ==
    CASE ch = "http" -> HTTP_poll_commands(n)
      [] ch = "dns"  -> DNS_poll_commands(n)
      [] ch = "icmp" -> ICMP_poll_commands(n)
      [] OTHER       -> SMB_poll_commands(n)

send_message(ch, n) ==
    CASE ch = "http" -> HTTP_send_message(n)
      [] ch = "dns"  -> DNS_send_message(n)
      [] ch = "icmp" -> ICMP_send_message(n)
      [] OTHER       -> SMB_send_message(n)

heartbeat(ch, n) ==
    CASE ch = "http" -> HTTP_heartbeat(n)
      [] ch = "dns"  -> DNS_heartbeat(n)
      [] ch = "icmp" -> ICMP_heartbeat(n)
      [] OTHER       -> SMB_heartbeat(n)

\* What the network can give to an operation of a channel.
Outcomes(ch) ==
    CASE ch = "http" -> HttpOutcomes
      [] ch = "dns"  -> DnsOutcomes
      [] ch = "icmp" -> IcmpOutcomes
      [] OTHER       -> SmbOutcomes

\* `for cmd in commands`: iter() raises TypeError on None and on a number;
\* a list gives its items, a string its characters, a dict its keys.
Iterable(v) == v \notin {"None", "7"}

Iterate(v) ==
    CASE v = "['whoami']"       -> <<"whoami">>
      [] v = "['whoami', 'id']" -> <<"whoami", "id">>
      [] v = "'ack'"            -> <<"a", "c", "k">>
      [] OTHER                  -> <<>>

\* f"Executed: {cmd}"
Executed(cmd) == <<"Executed: ", cmd>>

\* What a task did in its current polling cycle, in order.
ExecuteEvent(cmd) == [event |-> "execute", message |-> Executed(cmd), failed |-> FALSE]

\* failed: the channel gave the failure value of send_message or send_output.
ReportEvent(message, r) ==
    [event |-> "report", message |-> message, failed |-> (r.value \in {"''", "False"})]

SleepEvent == [event |-> "sleep", message |-> "none", failed |-> FALSE]

\* The number of items the `for` statement has taken from its iterator.
Taken(task) == Cardinality({j \in 1..Len(task.trace) : task.trace[j].event = "execute"})

\* Variant: the commands are taken last first.
NextCommandReversed(task) == task.commands[Len(task.commands) - Taken(task)]

\* The item the `for` statement takes next.
NextCommand(task) == task.commands[Taken(task) + 1]

\* Variant: the loop is left after a report that failed.
ForExhaustedOrFailed(task) ==
    \/ Taken(task) = Len(task.commands)
    \/ /\ task.trace # <<>>
       /\ task.trace[Len(task.trace)].failed

\* The iterator of the `for` statement is exhausted.
ForExhausted(task) == Taken(task) = Len(task.commands)

\* Variant: a poll that brought nothing is made again at once.
AfterPollRetrying(r) ==
    IF r.value = "[]" THEN "ready"
    ELSE IF Iterable(r.value) THEN "for" ELSE "failed"

\* Where protocol_polling_task goes after comm.poll_commands() returned r:
\* into the `for` statement, whose iter() raises on what cannot be iterated.
AfterPoll(r) == IF Iterable(r.value) THEN "for" ELSE "failed"

\* protocol_polling_task, line 43: commands = comm.poll_commands(); iter().
\* calls counts the calls of poll_commands (of heartbeat, in heartbeat_task)
\* since the task's last sleep ended.
PollCommands(t) ==
    /\ t \in TaskIds
    /\ agent_main = "gather"
    /\ LoopFree
    /\ agent_tasks[t].kind = "poll"
    /\ agent_tasks[t].pc = "ready"
    /\ \E n \in Outcomes(agent_tasks[t].channel) :
         LET r == poll_commands(agent_tasks[t].channel, n)
         IN  agent_tasks' =
               [agent_tasks EXCEPT ![t] =
                  [@ EXCEPT !.pc = AfterPoll(r), !.commands = Iterate(r.value),
                            !.result = "none", !.trace = <<>>,
                            !.calls = @ + 1]]
    /\ UNCHANGED <<control_vars, directory_vars, channel_result, agent_main>>

\* Lines 44-47: the next command is taken and its result made.
ExecuteCommand(t) ==
    /\ t \in TaskIds
    /\ agent_main = "gather"
    /\ agent_tasks[t].pc = "for"
    /\ Taken(agent_tasks[t]) < Len(agent_tasks[t].commands)
    /\ LET cmd == NextCommand(agent_tasks[t])
       IN  agent_tasks' =
             [agent_tasks EXCEPT ![t] =
                [@ EXCEPT !.pc = "report", !.result = Executed(cmd),
                          !.trace = Append(@, ExecuteEvent(cmd))]]
    /\ UNCHANGED <<control_vars, directory_vars, channel_result, agent_main>>

\* Line 48: comm.send_message(result); what it returns is dropped.
ReportResult(t) ==
    /\ t \in TaskIds
    /\ agent_main = "gather"
    /\ agent_tasks[t].pc = "report"
    /\ \E n \in Outcomes(agent_tasks[t].channel) :
         LET r == send_message(agent_tasks[t].channel, n)
         IN  agent_tasks' =
               [agent_tasks EXCEPT ![t] =
                  [@ EXCEPT !.pc = "for",
                            !.trace = Append(@, ReportEvent(agent_tasks[t].result, r))]]
    /\ UNCHANGED <<control_vars, directory_vars, channel_result, agent_main>>

\* Line 49: await asyncio.sleep(poll_interval), after the loop.
PollSleep(t) ==
    /\ t \in TaskIds
    /\ agent_main = "gather"
    /\ agent_tasks[t].pc = "for"
    /\ ForExhausted(agent_tasks[t])
    /\ agent_tasks' =
         [agent_tasks EXCEPT ![t] =
            [@ EXCEPT !.pc = "sleeping", !.trace = Append(@, SleepEvent)]]
    /\ UNCHANGED <<control_vars, directory_vars, channel_result, agent_main>>

\* heartbeat_task, lines 30-32: comm.heartbeat(), then the sleep.
HeartbeatStep(t) ==
    /\ t \in TaskIds
    /\ agent_main = "gather"
    /\ LoopFree
    /\ agent_tasks[t].kind = "heartbeat"
    /\ agent_tasks[t].pc = "ready"
    /\ \E n \in Outcomes(agent_tasks[t].channel) :
         LET r == heartbeat(agent_tasks[t].channel, n)
         IN  agent_tasks' =
               [agent_tasks EXCEPT ![t] =
                  [@ EXCEPT !.pc = IF r.raised THEN "failed" ELSE "sleeping",
                            !.calls = @ + 1]]
    /\ UNCHANGED <<control_vars, directory_vars, channel_result, agent_main>>

\* dynamic_config_task, lines 58-60: a log line, then the sleep.
DynamicConfig(t) ==
    /\ t \in TaskIds
    /\ agent_main = "gather"
    /\ LoopFree
    /\ agent_tasks[t].kind = "config"
    /\ agent_tasks[t].pc = "ready"
    /\ agent_tasks' = [agent_tasks EXCEPT ![t] = [@ EXCEPT !.pc = "sleeping"]]
    /\ UNCHANGED <<control_vars, directory_vars, channel_result, agent_main>>

\* check_for_update: the handler of `except Exception` formats new_version,
\* a local that is bound only by line 48, so every exception of the try
\* block (requests.get failing, a body that is no JSON object) ends in an
\* UnboundLocalError that leaves the function.
check_for_update(n) ==
    IF n.net # "response" THEN [raised |-> TRUE, value |-> "none"]
    ELSE IF n.status # 200 THEN [raised |-> FALSE, value |-> "None"]
    ELSE IF n.body # "object" THEN [raised |-> TRUE, value |-> "none"]
    ELSE [raised |-> FALSE,
          value |-> IF n.field \in JsonStrings \ {"''"} THEN n.field ELSE "None"]

\* self_update_task, lines 70-74; perform_update only writes a log line.
SelfUpdate(t) ==
    /\ t \in TaskIds
    /\ agent_main = "gather"
    /\ LoopFree
    /\ agent_tasks[t].kind = "update"
    /\ agent_tasks[t].pc = "ready"
    /\ \E n \in HttpOutcomes :
         agent_tasks' =
           [agent_tasks EXCEPT ![t] =
              [@ EXCEPT !.pc = IF check_for_update(n).raised THEN "failed" ELSE "sleeping"]]
    /\ UNCHANGED <<control_vars, directory_vars, channel_result, agent_main>>

\* The timer of an asyncio.sleep fires, or time.sleep returns: the task is
\* ready again.
Wake(t) ==
    /\ t \in TaskIds
    /\ agent_main \in {"gather", "script"}
    /\ LoopFree
    /\ agent_tasks[t].pc = "sleeping"
    /\ agent_tasks' = [agent_tasks EXCEPT ![t] =
                          [@ EXCEPT !.pc = "ready", !.calls = 0]]
    /\ UNCHANGED <<control_vars, directory_vars, channel_result, agent_main>>

\* Line 111 and asyncio.run: gather passes the first exception of a task on
\* to main(), which ends with it; asyncio.run then cancels every task that
\* is left, and only KeyboardInterrupt is caught at line 116.
GatherRaises ==
    /\ agent_main = "gather"
    /\ LoopFree
    /\ \E t \in TaskIds : agent_tasks[t].pc = "failed"
    /\ agent_main' = "raised"
    /\ agent_tasks' =
         [t \in TaskIds |->
            IF agent_tasks[t].pc = "failed" THEN agent_tasks[t]
            ELSE [agent_tasks[t] EXCEPT !.pc = "cancelled"]]
    /\ UNCHANGED <<control_vars, directory_vars, channel_result>>

\* C2/Tests/agent.py: a script with one loop and no event loop.  Its channels
\* are those of Agent/agent_comm.py, whose HTTP poll_commands and send_output
\* end as the ones of Agent/protocols do.
\* `if commands:`
Truthy(v) == v \notin {"None", "[]", "''", "{}"}

\* f"Executed command: {command}"
ScriptOutput(cmd) == <<"Executed command: ", cmd>>

\* Lines 36-38: the poll, the test of its result, iter().
ScriptPoll(t) ==
    /\ t \in TaskIds
    /\ agent_main = "script"
    /\ agent_tasks[t].pc = "ready"
    /\ \E n \in HttpOutcomes :
         LET r == HTTP_poll_commands(n)
         IN  agent_tasks' =
               [agent_tasks EXCEPT ![t] =
                  IF ~Truthy(r.value)
                  THEN [@ EXCEPT !.pc = "for", !.commands = <<>>,
                                 !.result = "none", !.trace = <<>>]
                  ELSE IF Iterable(r.value)
                  THEN [@ EXCEPT !.pc = "for", !.commands = Iterate(r.value),
                                 !.result = "none", !.trace = <<>>]
                  ELSE [@ EXCEPT !.pc = "failed", !.commands = <<>>,
                                 !.result = "none", !.trace = <<>>]]
    /\ UNCHANGED <<control_vars, directory_vars, channel_result, agent_main>>

\* Lines 38-41.
ScriptExecute(t) ==
    /\ t \in TaskIds
    /\ agent_main = "script"
    /\ agent_tasks[t].pc = "for"
    /\ Taken(agent_tasks[t]) < Len(agent_tasks[t].commands)
    /\ LET cmd == NextCommand(agent_tasks[t])
       IN  agent_tasks' =
             [agent_tasks EXCEPT ![t] =
                [@ EXCEPT !.pc = "report", !.result = ScriptOutput(cmd),
                          !.trace = Append(@, [event |-> "execute",
                                               message |-> ScriptOutput(cmd),
                                               failed |-> FALSE])]]
    /\ UNCHANGED <<control_vars, directory_vars, channel_result, agent_main>>

\* Line 43: http_comm.send_output(AGENT_ID, AUTH_TOKEN, output).
ScriptReport(t) ==
    /\ t \in TaskIds
    /\ agent_main = "script"
    /\ agent_tasks[t].pc = "report"
    /\ \E n \in HttpOutcomes :
         agent_tasks' =
           [agent_tasks EXCEPT ![t] =
              [@ EXCEPT !.pc = "for",
                        !.trace = Append(@, ReportEvent(agent_tasks[t].result,
                                                        HTTP_send_output(n)))]]
    /\ UNCHANGED <<control_vars, directory_vars, channel_result, agent_main>>

\* Lines 46-62: the DNS and ICMP messages and the SMB task file, whose
\* results are only printed, then time.sleep(10).
ScriptSleep(t) ==
    /\ t \in TaskIds
    /\ agent_main = "script"
    /\ agent_tasks[t].pc = "for"
    /\ ForExhausted(agent_tasks[t])
    /\ \E d \in DnsOutcomes, i \in IcmpOutcomes :
         agent_tasks' =
           [agent_tasks EXCEPT ![t] =
              IF DNS_send_message(d).raised \/ ICMP_send_message(i).raised
              THEN [@ EXCEPT !.pc = "failed"]
              ELSE [@ EXCEPT !.pc = "sleeping", !.trace = Append(@, SleepEvent)]]
    /\ UNCHANGED <<control_vars, directory_vars, channel_result, agent_main>>

NextAgent ==
    \/ \E t \in AllTaskIds : PollCommands(t)
    \/ \E t \in AllTaskIds : ExecuteCommand(t)
    \/ \E t \in AllTaskIds : ReportResult(t)
    \/ \E t \in AllTaskIds : PollSleep(t)
    \/ \E t \in AllTaskIds : HeartbeatStep(t)
    \/ \E t \in AllTaskIds : DynamicConfig(t)
    \/ \E t \in AllTaskIds : SelfUpdate(t)
    \/ \E t \in AllTaskIds : Wake(t)
    \/ GatherRaises
    \/ \E t \in AllTaskIds : ScriptPoll(t)
    \/ \E t \in AllTaskIds : ScriptExecute(t)
    \/ \E t \in AllTaskIds : ScriptReport(t)
    \/ \E t \in AllTaskIds : ScriptSleep(t)

\* main() has made its tasks for some configuration and awaits gather, or
\* the script of C2/Tests is at the head of its loop.
InitAgent ==
    /\ Constructed
    /\ use_https = TRUE
    /\ external = {}
    /\ agents = {}
    /\ \/ /\ \E enabled \in Configs : agent_tasks = MainTasks(enabled)
          /\ agent_main = "gather"
       \/ /\ agent_tasks = <<Task("script", "http")>>
          /\ agent_main = "script"

SpecAgent == InitAgent /\ [][NextAgent]_vars

\* ------------------------------------------------------------------ claims
\* Call r takes a step: it arrives, moves on, or ends.
Acts(r) ==
    \/ (r \in InFlight) # (r \in InFlight')
    \/ r \in InFlight /\ r \in InFlight' /\ calls[r] # calls'[r]

\* C1: at most one start_all/stop_all/restart call executes at a time: a call
\* that arrived while an earlier one is still in progress (in stop_all's grace
\* wait or in restart's pause) has no effect on stop_event, protocol_tasks or
\* running.
C1_OneControlCallAtATime ==
    [][\A r \in Requests :
          (Acts(r) /\ \E o \in InFlight : o < r)
              => UNCHANGED <<stop_event, protocol_tasks, running>>]_vars

\* C2: start_all run while running is True is a no-op: it creates no listener
\* unit and leaves protocol_tasks, stop_event and running unchanged, so start_all
\* calls with no stop in between leave exactly one set of listener units.
C2_StartAllWhileRunningIsNoOp ==
    [][\A r \in Requests :
          (RunStartAll(r) /\ running)
              => /\ UNCHANGED <<running, stop_event, protocol_tasks, units, cancel_req, cycle>>
                 /\ ready' = Tail(ready)]_vars

\* A start_all has just found running True, with one set of units in place.
C2_Witness ==
    /\ log = "Protocols are already running."
    /\ running
    /\ cycle = 1
    /\ Cardinality(DOMAIN units) = Len(Protocols)
    /\ Len(protocol_tasks) = Len(Protocols)

\* C3: stop_all run while running is False is a no-op: it does not set
\* stop_event, cancels no task, does not wait, and leaves protocol_tasks and
\* running unchanged.
C3_StopAllWhileStoppedIsNoOp ==
    [][/\ \A r \in Requests :
            (RunStopAll(r) /\ ~running)
                => /\ UNCHANGED <<running, stop_event, protocol_tasks, units, cancel_req, cycle>>
                   /\ UNCHANGED timers
                   /\ r \notin InFlight'
       /\ \A a \in Actions :
            (ControlRestart(a) /\ ~running)
                => /\ UNCHANGED <<running, stop_event, protocol_tasks, units, cancel_req, cycle>>
                   /\ calls'[nreq'].pc = "restart_sleep"]_vars

\* A stop_all has just found running False and has returned without sleeping.
C3_Witness ==
    /\ log = "Protocols are not currently running."
    /\ InFlight = {}
    /\ timers = <<>>
    /\ ~running

\* C4: when a stop_all that found running True returns, stop_event is set,
\* cancel() has been requested on every tracked asyncio task, protocol_tasks is
\* empty and running is False.
C4_StopAllPostcondition ==
    [][\A r \in InFlight :
          (calls[r].pc = "stop_all_sleep" /\ Acts(r))
              => /\ stop_event'
                 /\ \A u \in Range(protocol_tasks) : IsTask(u) => u \in cancel_req'
                 /\ protocol_tasks' = <<>>
                 /\ ~running']_vars

\* C5: a stop_all that found running True goes on as soon as its sleep is
\* over, whatever the executor threads are doing, and sets running to False;
\* it ends no thread: one that has not returned stays as it is.
C5_StopAllAbandonsThreads ==
    /\ [](\A r \in InFlight :
            (calls[r].pc = "stop_all_sleep" /\ ready = <<>> /\ Head(timers) = r)
                => ENABLED ResumeStopAll(r))
    /\ [][\A r \in Requests :
            ResumeStopAll(r) => (~running' /\ protocol_tasks' = <<>> /\ units' = units)]_vars

\* stop_all has returned and a server thread it signalled is still live.
C5_Witness ==
    /\ log = "All protocols stopped."
    /\ ~running
    /\ stop_event
    /\ \E u \in DOMAIN units : units[u] = "live"

\* The orchestrator state as read from running and stop_event.
Phase(run, ev) == IF ~run THEN "Stopped" ELSE IF ev THEN "Stopping" ELSE "Running"

\* C6: the state only moves Stopped -> Starting/Running -> Stopping -> Stopped:
\* never from Running to Stopped without Stopping, never from Stopping back to
\* Running.
C6_LifecycleOrder ==
    [][\/ Phase(running', stop_event') = Phase(running, stop_event)
       \/ <<Phase(running, stop_event), Phase(running', stop_event')>> \in
            { <<"Stopped", "Running">>, <<"Running", "Stopping">>,
              <<"Stopping", "Stopped">> }]_vars

\* A unit takes its first step from u's state of having been created.
Created(u) == units[u] \in {"pending", "queued"}

C8_RestartStopsThenStarts ==
    /\ [](\A r \in InFlight :
            (/\ calls[r].action = "restart"
             /\ calls[r].pc \in {"restart_sleep", "start_all"}
             /\ r \notin overlapped)
                => ~running)
    /\ [][\A r \in InFlight :
            (calls[r].action = "restart" /\ r \notin overlapped /\ RunStartAll(r))
                => /\ running'
                   /\ ~stop_event'
                   /\ protocol_tasks' = NewUnits(cycle')
                   /\ Range(protocol_tasks') \cap DOMAIN units = {}
                   /\ Range(protocol_tasks') \subseteq DOMAIN units']_vars

\* Two requests, two sets of units: the second request was a restart of the
\* running manager, it has finished, and its units are the tracked ones.
C8_Witness ==
    /\ nreq = 2
    /\ cycle = 2
    /\ InFlight = {}
    /\ log = "All protocols started in background."
    /\ running
    /\ ~stop_event
    /\ protocol_tasks = NewUnits(2)

\* The transports the configuration enables: HTTPS only with use_https.
EnabledKinds == IF use_https THEN Kinds ELSE Kinds \ {"https"}

\* C9: start_all creates exactly one listener unit for each enabled transport
\* and none for a disabled one, and sets running to True.
C9_OneUnitPerEnabledTransport ==
    [][\A r \in Requests :
          (RunStartAll(r) /\ ~running)
              => /\ running'
                 /\ (DOMAIN units') \ (DOMAIN units) = {Unit(cycle', k) : k \in EnabledKinds}]_vars

\* C10: for an action other than start, stop and restart the control endpoint
\* answers 400 and calls nothing: stop_event, protocol_tasks, running, and the
\* scheduled work stay as they are.
C10_InvalidActionRejected ==
    [][\A a \in Actions \ ValidActions :
          control_server(a)
              => /\ last_response' = 400
                 /\ UNCHANGED <<running, stop_event, protocol_tasks, units, cancel_req, cycle>>
                 /\ UNCHANGED <<calls, ready, timers, log>>]_vars

\* An invalid action has just been answered while the manager is running.
C10_Witness ==
    /\ last_response = 400
    /\ running
    /\ Len(protocol_tasks) = Len(Protocols)

\* C11: when the orchestrator call of a start, stop or restart request raises,
\* the request is answered with HTTP 500, never with success.
C11_FailureAnswered500 ==
    \A f \in failed : f.response = 500

\* C12: every register call for one agent_id returns the same token, whatever
\* the ip addresses and the Directory calls in between.
C12_RegisterReturnsOneToken ==
    \A p \in issued : \A q \in issued : p[1] = q[1] => p[2] = q[2]

\* Two register calls for agent A have returned: the first made the row, the
\* second found it and moved last_seen past registered_at.
C12_Witness ==
    /\ ncall = 2
    /\ sessions = EmptyMap
    /\ result.op = "register"
    /\ result.agent_id = "A"
    /\ result.outcome = "token"
    /\ \E row \in agents :
         /\ row.agent_id = "A"
         /\ row.id = 1
         /\ row.last_seen > row.registered_at
         /\ issued = {<<"A", row.auth_token>>}

\* C13: authenticate returns true exactly when a record of agent_id exists
\* whose stored auth_token is the token given; otherwise it returns false.
C13_AuthenticateIffStoredToken ==
    result.op = "authenticate"
        => /\ result.outcome \in {"true", "false"}
           /\ result.outcome = "true"
                <=> \E row \in agents : /\ row.agent_id = result.agent_id
                                        /\ row.auth_token = result.token

\* authenticate has answered false for a known agent with another token.
C13_Witness ==
    /\ result.op = "authenticate"
    /\ result.outcome = "false"
    /\ result.token # NoToken
    /\ \E row \in agents : /\ row.agent_id = result.agent_id
                           /\ row.auth_token # result.token

\* C14: a token that register has returned for an agent authenticates that
\* agent in every later state: the stored token is never replaced.
C14_IssuedTokenStaysValid ==
    \A p \in issued :
        \E row \in agents : row.agent_id = p[1] /\ row.auth_token = p[2]

\* Agent B got its token from a register call, and an update_status call
\* that came later has set it Offline.
C14_Witness ==
    /\ ncall = 2
    /\ result.op = "update_status"
    /\ result.agent_id = "B"
    /\ <<"B", EarlierToken>> \in issued
    /\ \E row \in agents : /\ row.agent_id = "B"
                           /\ row.status = "Offline"
                           /\ row.ip_address = "10.0.0.1"

\* C15: the Directory holds at most one record per agent_id.
C15_OneRecordPerAgent ==
    \A r1 \in agents : \A r2 \in agents : r1.agent_id = r2.agent_id => r1 = r2

\* A register call that found no record of its agent is about to commit its
\* new row, and another call has committed a row of that agent in between.
C15_Witness ==
    \E c \in DOMAIN sessions :
        /\ sessions[c].op = "register"
        /\ sessions[c].pc = "commit"
        /\ sessions[c].loaded = NoRow
        /\ Matching(sessions[c].agent_id) # {}

\* C16: concurrent register calls behave as some serial execution: a register
\* call that found no record of its agent, and commits after another call has
\* made one, returns that record's token; a register call of a new agent adds
\* its one row and leaves the others as they are.
C16_ConcurrentRegisterSerializable ==
    [][\A c \in DOMAIN sessions :
          (RegisterCommit(c) /\ sessions[c].loaded = NoRow)
              => IF Matching(sessions[c].agent_id) # {}
                 THEN /\ result'.outcome = "token"
                      /\ result'.token = First(sessions[c].agent_id).auth_token
                 ELSE /\ agents \subseteq agents'
                      /\ Cardinality({row \in agents' :
                            row.agent_id = sessions[c].agent_id}) = 1]_vars

\* C17: the stored last_seen of an agent never decreases.
C17_LastSeenNeverDecreases ==
    [][\A row \in agents : \A new \in agents' :
          new.id = row.id => new.last_seen >= row.last_seen]_vars

\* C18: update_status of an unknown agent_id changes nothing and creates no
\* record; of a known one it changes only that record's status and last_seen.
C18_UpdateStatusFrame ==
    [][/\ \A a \in AgentIds, st \in StatusArguments :
            (UpdateQuery(a, st) /\ Matching(a) = {})
                => /\ agents' = agents
                   /\ result'.outcome = "returned"
       /\ \A c \in DOMAIN sessions :
            UpdateCommit(c)
                => /\ Cardinality(agents') = Cardinality(agents)
                   /\ result'.outcome = "returned"
                   /\ \A row \in agents :
                        IF row.agent_id = sessions[c].agent_id
                        THEN \E new \in agents' :
                                new = [row EXCEPT !.status = new.status,
                                                  !.last_seen = new.last_seen]
                        ELSE row \in agents']_vars

\* update_status has set the agent of an earlier run Online and moved its
\* last_seen, next to the record of agent A, registered in this run.
C18_Witness ==
    /\ result.op = "update_status"
    /\ result.agent_id = "B"
    /\ \E row \in agents : row.agent_id = "A"
    /\ \E row \in agents : /\ row.agent_id = "B"
                           /\ row.status = "Online"
                           /\ row.ip_address = EarlierAgent.ip_address
                           /\ row.last_seen > EarlierAgent.last_seen

\* C19: a token that register returns is the token of a committed record of
\* that agent; when the commit fails the caller gets the failure and no
\* token, and the stored rows are unchanged.
C19_ReturnMatchesStored ==
    /\ [](result.op = "register" /\ result.outcome = "token"
            => \E row \in agents : /\ row.agent_id = result.agent_id
                                   /\ row.auth_token = result.token)
    /\ [][\A c \in DOMAIN sessions :
            (\/ RegisterCommitFails(c)
             \/ /\ RegisterCommit(c)
                /\ sessions[c].loaded = NoRow
                /\ Matching(sessions[c].agent_id) # {})
                => /\ result'.outcome = "raised"
                   /\ result'.token = NoToken
                   /\ agents' = agents]_vars

\* The commit of a register call of the unknown agent A has failed: the
\* caller has the exception, and there is no record of A.
C19_Witness ==
    /\ result.op = "register"
    /\ result.agent_id = "A"
    /\ result.outcome = "raised"
    /\ Matching("A") = {}
    /\ sessions = EmptyMap

IsFailedOutcome(r) ==
    \/ r.net # "response"
    \/ r.channel = "http" /\ r.status # 200
    \/ /\ r.channel = "http"
       /\ r.op \in {"send_message", "poll_commands"}
       /\ \/ r.body # "object"
          \/ r.op = "send_message" /\ r.field \in JsonValues \ JsonStrings
          \/ r.op = "poll_commands" /\ r.field \in JsonValues \ JsonArrays
    \/ r.channel = "dns" /\ r.body # "txt"
    \/ r.channel = "icmp" /\ r.body # "payload"

\* The value an operation gives when it fails.
FailureValue(op) ==
    IF op = "send_message" THEN "''"
    ELSE IF op = "poll_commands" THEN "[]"
    ELSE "False"

\* The network outcomes of the claim: the request failed, the status is not
\* 200, or the body is malformed or holds a value of another type than the
\* operation returns.  A heartbeat that is not implemented is no failure.
IsFailure(r) ==
    /\ r.op \in {"send_output", "heartbeat"} => r.channel = "http"
    /\ IsFailedOutcome(r)

\* C20: on every failed network outcome send_message returns the empty
\* string, poll_commands the empty list, HTTP send_output and heartbeat False,
\* and no operation raises.
C20_ChannelsFailClosed ==
    (channel_result.op # "none" /\ IsFailure(channel_result))
        => /\ ~channel_result.raised
           /\ channel_result.value = FailureValue(channel_result.op)

\* C21: poll_commands of the DNS, ICMP and SMB channels returns the empty
\* list on every call, whatever the network would give and whatever was
\* called before, makes no network request and does not raise.
C21_PollUnsupportedIsEmpty ==
    (channel_result.op = "poll_commands" /\ channel_result.channel \in {"dns", "icmp", "smb"})
        => /\ channel_result.value = "[]"
           /\ ~channel_result.raised
           /\ ~channel_result.asked

\* A DNS poll made while the server cannot be reached.
C21_Witness ==
    /\ channel_result.op = "poll_commands"
    /\ channel_result.channel = "dns"
    /\ channel_result.net = "connection_error"
    /\ channel_result.value = "[]"

\* The operations that only log "not implemented".
Unsupported(r) ==
    \/ r.op = "poll_commands" /\ r.channel \in {"dns", "icmp", "smb"}
    \/ r.op = "send_message" /\ r.channel = "smb"
    \/ r.op = "heartbeat" /\ r.channel \in {"dns", "icmp", "smb"}

\* The values a supported operation returns when its request gets no
\* response or, over HTTP, a status other than 200.
FailedValues(op) ==
    LET failedHttp == {n \in HttpOutcomes : n.net # "response" \/ n.status # 200}
    IN  CASE op = "poll_commands" -> {HTTP_poll_commands(n).value : n \in failedHttp}
          [] op = "heartbeat"     -> {HTTP_heartbeat(n).value : n \in failedHttp}
          [] op = "send_message"  ->
                {HTTP_send_message(n).value : n \in failedHttp}
                \cup {DNS_send_message(n).value : n \in {m \in DnsOutcomes : m.net # "response"}}
                \cup {ICMP_send_message(n).value : n \in {m \in IcmpOutcomes : m.net # "response"}}
          [] OTHER                -> {}

\* C22: the value an unsupported operation returns is not a value the same
\* operation returns on a channel that supports it when the attempt failed.
C22_UnsupportedDiffersFromFailed ==
    (channel_result.op # "none" /\ Unsupported(channel_result))
        => channel_result.value \notin FailedValues(channel_result.op)

\* The tasks that poll for commands: protocol_polling_task and the script.
Pollers == {t \in TaskIds : agent_tasks[t].kind \in {"poll", "script"}}

\* The result a poller makes of a command.
ResultOf(t, cmd) ==
    IF agent_tasks[t].kind = "script" THEN ScriptOutput(cmd) ELSE Executed(cmd)

\* C23: in a polling cycle the commands are executed in the order received,
\* the result of each is reported before the next is executed, and the sleep
\* comes only after the report of the last.
C23_CommandsReportedInOrder ==
    \A t \in Pollers :
        LET c  == agent_tasks[t].commands
            tr == agent_tasks[t].trace
        IN  /\ Len(tr) <= 2 * Len(c) + 1
            /\ \A j \in 1..Len(tr) :
                 IF j > 2 * Len(c) THEN tr[j].event = "sleep"
                 ELSE IF j % 2 = 1
                 THEN /\ tr[j].event = "execute"
                      /\ tr[j].message = ResultOf(t, c[(j + 1) \div 2])
                 ELSE /\ tr[j].event = "report"
                      /\ tr[j].message = ResultOf(t, c[j \div 2])

\* A cycle of protocol_polling_task with two commands has reached its sleep.
C23_Witness ==
    \E t \in Pollers :
        /\ agent_tasks[t].kind = "poll"
        /\ Len(agent_tasks[t].commands) = 2
        /\ Len(agent_tasks[t].trace) = 5
        /\ agent_tasks[t].pc = "sleeping"

Reports(tr) == {j \in 1..Len(tr) : tr[j].event = "report"}

\* C24: a cycle that has reached its sleep made one report for every command
\* the poll returned, failed reports included.
C24_FailedReportDoesNotStopCycle ==
    \A t \in Pollers :
        LET tr == agent_tasks[t].trace
        IN  (tr # <<>> /\ tr[Len(tr)].event = "sleep")
                => Cardinality(Reports(tr)) = Len(agent_tasks[t].commands)

\* A cycle has reached its sleep although the report of its first command
\* failed; the second command was reported after it.
C24_Witness ==
    \E t \in Pollers :
        LET tr == agent_tasks[t].trace
        IN  /\ agent_tasks[t].kind = "poll"
            /\ Len(agent_tasks[t].commands) >= 2
            /\ Len(tr) = 2 * Len(agent_tasks[t].commands) + 1
            /\ tr[2].failed
            /\ tr[4].event = "report"
            /\ tr[Len(tr)].event = "sleep"

\* C25: protocol_polling_task never ends with an exception, whatever
\* poll_commands returned.
C25_PollingTaskNeverRaises ==
    \A t \in TaskIds : agent_tasks[t].kind = "poll" => agent_tasks[t].pc # "failed"

\* The polling and heartbeat tasks of the transports.
TransportLoops == {t \in TaskIds : agent_tasks[t].kind \in {"poll", "heartbeat"}}

\* C26: when the only tasks that raised are polling or heartbeat tasks of a
\* transport, every other task keeps running.
C26_FailureStaysInItsLoop ==
    (/\ \E t \in TransportLoops : agent_tasks[t].pc = "failed"
     /\ \A t \in TaskIds : agent_tasks[t].pc = "failed" => t \in TransportLoops)
        => \A t \in TaskIds : agent_tasks[t].pc # "cancelled"

\* The calls that are inside stop_all, between stop_event.set() and
\* `self.running = False`: a stop cycle is in progress.
Stopping(cs) == {r \in DOMAIN cs : cs[r].pc = "stop_all_sleep"}

\* C27: a step that executes stop_event.set() is taken only when no stop
\* cycle is in progress: the signal is raised once in a stop cycle.
C27_SignalRaisedOncePerStopCycle ==
    [][Stopping(calls') \ Stopping(calls) # {} => Stopping(calls) = {}]_vars

LiveThread(u) == u \in DOMAIN units /\ units[u] = "live"

\* C28: a live server thread that finds stop_event set either leaves its
\* loop or sees the signal cleared again.
C28_ThreadsObserveStop ==
    \A u \in {v \in AllUnits : KindOf(v) \in ThreadKinds} :
        (stop_event /\ LiveThread(u)) ~> (~stop_event \/ ~LiveThread(u))

\* C29: no two listener units hold the same port at the same time.
C29_OneUnitPerPort ==
    \A u, v \in DOMAIN units :
        (u # v /\ Holding(u) /\ Holding(v) /\ PortOf(KindOf(u)) # NoPort)
            => PortOf(KindOf(u)) # PortOf(KindOf(v))

\* The DNS server of the second start cycle has returned while the one of
\* the first cycle, which never observed a stop, still serves port 53.
C29_Witness ==
    /\ Unit(2, "dns") \in DOMAIN units
    /\ units[Unit(1, "dns")] = "live"
    /\ units[Unit(2, "dns")] = "exited"
    /\ units[Unit(1, "smb")] = "live"
    /\ units[Unit(2, "smb")] = "exited"

\* C30: a register_agent that found the agent commits a table with the same
\* number of rows, in which every other agent's row is the row it was and the
\* agent's row differs at most in ip_address and last_seen and has status
\* Online; and no step of any call removes a row.
C30_RegisterKnownFrame ==
    [][/\ \A c \in DOMAIN sessions :
            (RegisterCommit(c) /\ sessions[c].loaded # NoRow) =>
               /\ Cardinality(agents') = Cardinality(agents)
               /\ \A row \in agents :
                     IF row.agent_id = sessions[c].agent_id
                     THEN \E new \in agents' :
                            new = [row EXCEPT
                                     !.ip_address = new.ip_address,
                                     !.last_seen = new.last_seen,
                                     !.status = "Online"]
                     ELSE row \in agents'
       /\ \A row \in agents : \E new \in agents' : new.id = row.id]_vars

\* C31: the status of every stored agent is Online or Offline, whatever
\* register_agent and update_agent_status calls were made.
C31_StatusIsOnlineOrOffline ==
    \A row \in agents : row.status \in StatusValues

\* C32: every request the HTTP channel issues, for poll_commands, send_output,
\* send_message and heartbeat, carries agent_id and auth_token.
C32_HttpRequestsCarryIdentity ==
    (channel_result.channel = "http" /\ channel_result.asked)
        => {"agent_id", "auth_token"} \subseteq channel_result.payload

\* C33: an echo-request that arrived while the manager was running, once every
\* sniffer that captured it has handled it, has been answered by exactly one
\* echo-reply, with its identifier and sequence number.
C33_OneReplyPerEchoRequest ==
    (echo.arrived /\ echo.running /\ echo.todo = {})
        => echo.replies = <<echo.request>>

\* C34: between the end of one sleep and the next a polling task calls
\* poll_commands once and a heartbeat task calls heartbeat once; every report
\* directly follows the execution whose result it carries, and a polling
\* cycle that has reached its sleep made as many reports as the poll returned
\* commands, reports that failed included.
C34_NoRetry ==
    \A t \in TaskIds :
        LET task == agent_tasks[t]
            tr   == task.trace
        IN  /\ task.kind \in {"poll", "heartbeat"} =>
                  /\ task.calls <= 1
                  /\ task.pc = "sleeping" => task.calls = 1
            /\ task.kind = "poll" =>
                  /\ \A j \in 1..Len(tr) :
                        tr[j].event = "report" =>
                           /\ j > 1
                           /\ tr[j - 1].event = "execute"
                           /\ tr[j - 1].message = tr[j].message
                  /\ task.pc = "sleeping" =>
                        Cardinality(Reports(tr)) = Len(task.commands)

\* A polling task sleeps after one poll and a report that failed, and a
\* heartbeat task sleeps after one heartbeat.
C34_Witness ==
    /\ \E t \in TaskIds :
          /\ agent_tasks[t].kind = "poll"
          /\ agent_tasks[t].pc = "sleeping"
          /\ agent_tasks[t].calls = 1
          /\ \E j \in Reports(agent_tasks[t].trace) : agent_tasks[t].trace[j].failed
    /\ \E t \in TaskIds :
          /\ agent_tasks[t].kind = "heartbeat"
          /\ agent_tasks[t].pc = "sleeping"
          /\ agent_tasks[t].calls = 1

\* C35: a start_dns_server that has returned after `systemctl stop
\* systemd-resolved` made `systemctl start systemd-resolved` as its last call,
\* whichever way it returned; and no thread but a DNS server's calls systemctl.
C35_DnsServiceRestarted ==
    /\ \A u \in DOMAIN systemctl : u \in DOMAIN units /\ KindOf(u) = "dns"
    /\ \A u \in DOMAIN units :
          (KindOf(u) = "dns" /\ units[u] = "exited")
              => CallsOf(u) = <<"stop", "start">>
    /\ \A u \in DOMAIN units :
          (KindOf(u) = "dns" /\ units[u] = "live") => CallsOf(u) = <<"stop">>

\* The DNS server of the second cycle has returned because its bind failed,
\* the one of the first cycle still holding UDP port 53, and has restarted
\* the service on its way out.
C35_Witness ==
    /\ PortOf("dns") \notin external
    /\ Unit(2, "dns") \in DOMAIN units
    /\ units[Unit(1, "dns")] = "live"
    /\ units[Unit(2, "dns")] = "exited"
    /\ CallsOf(Unit(1, "dns")) = <<"stop">>
    /\ CallsOf(Unit(2, "dns")) = <<"stop", "start">>

\* C36: once a later start_all has created its units, no SMB, DNS or ICMP
\* unit of an earlier cycle is still waiting for a thread or running.
C36_NoUnitSurvivesIntoNextCycle ==
    \A u \in DOMAIN units :
        (KindOf(u) \in ThreadKinds /\ CycleOf(u) < cycle)
            => units[u] \notin {"queued", "live"}

\* C37: when running is False and no control call is in progress, every HTTP
\* and HTTPS task start_all ever created has had cancel() called on it or has
\* finished.
C37_StoppedMeansNoListenerTask ==
    (~running /\ InFlight = {})
        => \A u \in DOMAIN units :
             KindOf(u) \in TaskKinds
                => (u \in cancel_req \/ units[u] \in {"cancelled", "exited"})

\* C38: when no control call is in progress, running is what the request
\* answered 200 last asked for: True after start or restart, False after stop.
C38_RunningMatchesLastAcknowledged ==
    (InFlight = {} /\ acked # "none")
        => (running <=> acked \in {"start", "restart"})

\* The table with the tokens replaced: f gives every row id a token.
Retokened(f) == {[row EXCEPT !.auth_token = f[row.id]] : row \in agents}

\* C39: list_agents returns one entry for every stored agent and no other, no
\* entry has an auth_token, and the list is one that list_agents can also
\* return from any table that differs from the stored one in tokens only.
C39_ListHidesTokens ==
    [][(result'.op = "list" /\ result' # result) =>
         LET out == result'.list
         IN  /\ Len(out) = Cardinality(agents)
             /\ \A row \in agents :
                   Cardinality({i \in DOMAIN out :
                                  out[i].agent_id = row.agent_id}) = 1
             /\ \A i \in DOMAIN out : "auth_token" \notin DOMAIN out[i]
             /\ \A f \in [{row.id : row \in agents} -> Tokens] :
                   \E o \in Orders(Retokened(f)) : out = list_agents(o)]_vars

\* list_agents has returned the entries of two agents whose tokens differ.
C39_Witness ==
    /\ result.op = "list"
    /\ Len(result.list) = 2
    /\ Cardinality(agents) = 2
    /\ \E r1, r2 \in agents : r1.auth_token # r2.auth_token

\* ----------------------------------------------------- the executor's workers
\* The sniffers of two start/stop cycles that ended before the behaviour
\* begins.  No ICMP packet reached the host in that time, so sniff() has not
\* evaluated its stop_filter and neither start_icmp_server call has returned.
Abandoned == {Unit(0, "icmp"), Unit(-1, "icmp")}

\* The server after those two cycles: stop_all has run to its end twice, the
\* HTTP(S) tasks and the SMB and DNS threads of both cycles have ended, and
\* the two sniffers still occupy a worker each.  cycle and nreq count from
\* here on.
InitAbandoned ==
    /\ running = FALSE
    /\ stop_event = TRUE
    /\ protocol_tasks = <<>>
    /\ units = [u \in Abandoned |-> "live"]
    /\ cancel_req = {}
    /\ cycle = 0
    /\ calls = EmptyMap
    /\ nreq = 0
    /\ ready = <<>>
    /\ timers = <<>>
    /\ last_response = 200
    /\ log = "All protocols stopped."
    /\ overlapped = {}
    /\ failed = {}
    /\ clock = 0
    /\ sessions = EmptyMap
    /\ ncall = 0
    /\ ntoken = 0
    /\ issued = {}
    /\ result = NoResult
    /\ channel_result = NoOperation
    /\ echo = NoEcho
    /\ systemctl = EmptyMap
    /\ acked = "stop"
    /\ use_https = TRUE
    /\ external = {}
    /\ agents = {}
    /\ NoAgent

PoolUnits == AllUnits \cup Abandoned

\* Where start_all submits the server of kind k: the run_in_executor calls
\* follow the order of the protocol_tasks list.
Position(k) == CHOOSE i \in 1..Len(Protocols) : Protocols[i] = k

\* u was submitted to the executor before v.
SubmittedBefore(u, v) ==
    \/ CycleOf(u) < CycleOf(v)
    \/ CycleOf(u) = CycleOf(v) /\ Position(KindOf(u)) < Position(KindOf(v))

\* The executor keeps the submitted functions in a FIFO queue: a free worker
\* takes the one submitted first.
WorkerTakes(u) ==
    /\ \A v \in DOMAIN units : units[v] = "queued" => ~SubmittedBefore(v, u)
    /\ ThreadStart(u)

\* The valid requests, the loop and the server threads; an ICMP packet may
\* reach any sniffer, the abandoned ones included.
NextPool ==
    \/ \E a \in ValidActions : ControlStart(a)
    \/ \E a \in ValidActions : ControlStop(a)
    \/ \E a \in ValidActions : ControlRestart(a)
    \/ LoopStep
    \/ \E u \in AllUnits : WorkerTakes(u)
    \/ \E u \in AllUnits : ThreadExit(u)
    \/ \E u \in PoolUnits : SnifferStop(u)

\* The loop goes on, a free worker takes the oldest submitted function, and a
\* server that tests stop_event itself gets to its test.  Nothing is assumed
\* about requests or about ICMP traffic.
FairnessPool ==
    /\ WF_vars(LoopStep)
    /\ \A u \in AllUnits : WF_vars(WorkerTakes(u))
    /\ \A u \in AllUnits : WF_vars(ThreadExit(u))

SpecPool == InitAbandoned /\ [][NextPool]_vars /\ FairnessPool

\* A server function submitted to the executor that no worker has taken yet.
Queued(u) == u \in DOMAIN units /\ units[u] = "queued"

\* C40: the server functions that have not returned never outnumber the
\* executor's workers, and every server function submitted to the executor is
\* eventually taken by a worker.
C40_SubmittedUnitsBegin ==
    /\ [](Cardinality(BusyWorkers) <= max_workers)
    /\ \A u \in {v \in AllUnits : KindOf(v) \in ThreadKinds} :
          Queued(u) ~> ~Queued(u)

====
